---- MODULE Spec2Model ----
(***************************************************************************)
(* A model of the voxel world of eisfeld20/tollo: Block, Chunk (storage    *)
(* and meshing), World (streaming, block access) and Player (collision).   *)
(*                                                                         *)
(* A Block object is modelled by its type tag; an absent voxel, an absent  *)
(* mesh and an absent chunk are the JavaScript null.  A chunk key, the     *)
(* string `${x},${z}`, is modelled by the pair <<x, z>> it encodes.        *)
(* Real-valued quantities (positions, velocities, noise samples) are       *)
(* fixed-point integers; the unit is stated where they are introduced.     *)
(***************************************************************************)
EXTENDS Integers, Sequences, FiniteSets, TLC

(***************************************************************************)
(* Bounds of the model.  The streamed world is a scaled-down World: the    *)
(* fields chunkSize, chunkHeight, renderDistance, seaLevel, minHeight and  *)
(* maxHeight of the instance take the Sim values below.                    *)
(***************************************************************************)
SimChunkSize == 2
SimChunkHeight == 7
SimRenderDistance == 1
SimSeaLevel == 0
SimMinHeight == 0
SimMaxHeight == 1
MaxUpdates == 3
MaxEdits == 1
MaxCoord == 40
MaxChunkCalls == 4
MaxAccessCalls == 3
MaxSteps == 5
TicksPerSecond == 20
MaxFrames == 3

(***************************************************************************)
(* Program constants.                                                      *)
(***************************************************************************)
null == -1

AIR == 0
GRASS == 1
DIRT == 2
STONE == 3
WOOD == 4
LEAVES == 5
WATER == 6
SAND == 7

chunkSize == 16
chunkHeight == 128
renderDistance == 8
unloadMargin == 2

BlockTypes == {AIR, GRASS, DIRT, STONE, WOOD, LEAVES, WATER, SAND}

\* BlockData: solidity, transparency and the face colours of each type; a
\* colour the type does not declare is null (undefined in the source).
BlockData ==
    [t \in BlockTypes |->
        CASE t = AIR    -> [solid |-> FALSE, transparent |-> TRUE,  color |-> 0,
                            topColor |-> null, sideColor |-> null, bottomColor |-> null]
          [] t = GRASS  -> [solid |-> TRUE,  transparent |-> FALSE, color |-> 8172354,
                            topColor |-> null, sideColor |-> 9159498, bottomColor |-> 9268835]
          [] t = DIRT   -> [solid |-> TRUE,  transparent |-> FALSE, color |-> 9268835,
                            topColor |-> null, sideColor |-> null, bottomColor |-> null]
          [] t = STONE  -> [solid |-> TRUE,  transparent |-> FALSE, color |-> 7697781,
                            topColor |-> null, sideColor |-> null, bottomColor |-> null]
          [] t = WOOD   -> [solid |-> TRUE,  transparent |-> FALSE, color |-> 9268835,
                            topColor |-> 7163969, sideColor |-> null, bottomColor |-> 7163969]
          [] t = LEAVES -> [solid |-> TRUE,  transparent |-> FALSE, color |-> 5025616,
                            topColor |-> null, sideColor |-> null, bottomColor |-> null]
          [] t = WATER  -> [solid |-> FALSE, transparent |-> TRUE,  color |-> 2201331,
                            topColor |-> null, sideColor |-> null, bottomColor |-> null]
          [] OTHER      -> [solid |-> TRUE,  transparent |-> FALSE, color |-> 16042395,
                            topColor |-> null, sideColor |-> null, bottomColor |-> null]]

\* Block.isBlockSolid: BlockData[type]?.solid || false
Block_isBlockSolid(type) ==
    IF type \in BlockTypes THEN BlockData[type].solid ELSE FALSE

\* Block.isBlockTransparent: BlockData[type]?.transparent || false
Block_isBlockTransparent(type) ==
    IF type \in BlockTypes THEN BlockData[type].transparent ELSE FALSE

\* a || b on colours: b when a is undefined or 0
OrElse(a, b) == IF a = null \/ a = 0 THEN b ELSE a

\* Block.getBlockColor(type, face = 'main')
Block_getBlockColor(type, face) ==
    IF type \notin BlockTypes THEN 0
    ELSE LET data == BlockData[type]
         IN  CASE face = "top"    -> OrElse(data.topColor, data.color)
               [] face = "bottom" -> OrElse(data.bottomColor, data.color)
               [] face = "side"   -> OrElse(data.sideColor, data.color)
               [] OTHER           -> data.color

(***************************************************************************)
(* Integer arithmetic of the source.                                       *)
(***************************************************************************)
Abs(a) == IF a < 0 THEN -a ELSE a
Max(a, b) == IF a > b THEN a ELSE b
Min(a, b) == IF a < b THEN a ELSE b

\* Math.floor(a / n) for an integer a and n > 0
FloorDiv(a, n) == a \div n

\* The JavaScript remainder a % n: truncated, with the sign of the dividend
JsRem(a, n) == IF a >= 0 THEN a % n ELSE -((-a) % n)

\* The chunk coordinate rounded towards zero
ChunkCoord_truncating(x, size) == IF x >= 0 THEN x \div size ELSE -((-x) \div size)

\* chunkX = Math.floor(x / this.chunkSize)
ChunkCoord(x, size) == FloorDiv(x, size)

\* The local coordinate as a single remainder
LocalCoord_singleRem(x, size) == JsRem(x, size)

\* localX = ((x % this.chunkSize) + this.chunkSize) % this.chunkSize
LocalCoord(x, size) == JsRem(JsRem(x, size) + size, size)

(***************************************************************************)
(* Chunk (Chunk.js).  A chunk is the record                                *)
(*   [x, z, size, height, blocks, mesh, needsUpdate, uid]                  *)
(* blocks maps each local slot <<x, y, z>> to a block type or null; uid    *)
(* names the Chunk object; mesh is NoMesh or [id, blocks], id naming the   *)
(* THREE.Mesh object and blocks the voxel grid its geometry was built      *)
(* from: the geometry is MeshGeometry(chunk), the quads buildMesh emitted. *)
(***************************************************************************)
\* this.mesh = null
NoMesh == [id |-> null, blocks |-> << >>]

Slots(size, height) == (0..(size - 1)) \X (0..(height - 1)) \X (0..(size - 1))

\* new Chunk(x, z, size): every slot null, no mesh, needsUpdate true
NewChunk(x, z, size, height, uid) ==
    [x |-> x, z |-> z, size |-> size, height |-> height,
     blocks |-> [s \in Slots(size, height) |-> null],
     mesh |-> NoMesh, needsUpdate |-> TRUE, uid |-> uid]

Chunk_inBounds(chunk, x, y, z) ==
    ~(x < 0 \/ x >= chunk.size \/ y < 0 \/ y >= chunk.height \/ z < 0 \/ z >= chunk.size)

\* Chunk.setBlock writing to the nearest slot when out of range
Chunk_setBlock_clamped(chunk, x, y, z, block) ==
    [chunk EXCEPT !.blocks[<<Max(0, Min(chunk.size - 1, x)), Max(0, Min(chunk.height - 1, y)),
                             Max(0, Min(chunk.size - 1, z))>>] = block,
                  !.needsUpdate = TRUE]

\* Chunk.setBlock(x, y, z, block)
Chunk_setBlock(chunk, x, y, z, block) ==
    IF ~Chunk_inBounds(chunk, x, y, z) THEN chunk
    ELSE [chunk EXCEPT !.blocks[<<x, y, z>>] = block, !.needsUpdate = TRUE]

\* Chunk.getBlock(x, y, z)
Chunk_getBlock(chunk, x, y, z) ==
    IF ~Chunk_inBounds(chunk, x, y, z) THEN null
    ELSE chunk.blocks[<<x, y, z>>]

\* The six faces of addBlockFaces, in the order of the faces array: the
\* offset of the neighbour that `check` names and the `face` tag (absent on
\* the four lateral faces, where getBlockColor takes its default 'main').
Faces ==
    << [dir |-> "+X", d |-> << 1,  0,  0>>, face |-> "main"],
       [dir |-> "-X", d |-> <<-1,  0,  0>>, face |-> "main"],
       [dir |-> "+Y", d |-> << 0,  1,  0>>, face |-> "top"],
       [dir |-> "-Y", d |-> << 0, -1,  0>>, face |-> "bottom"],
       [dir |-> "+Z", d |-> << 0,  0,  1>>, face |-> "main"],
       [dir |-> "-Z", d |-> << 0,  0, -1>>, face |-> "main"] >>

\* shouldRenderFace rendering every face
Chunk_shouldRenderFace_all(chunk, x, y, z) == TRUE

\* Chunk.shouldRenderFace(x, y, z), x and z in world coordinates
Chunk_shouldRenderFace(chunk, x, y, z) ==
    IF y < 0 \/ y >= chunk.height THEN TRUE
    ELSE LET localX == x - (chunk.x * chunk.size)
             localZ == z - (chunk.z * chunk.size)
         IN  IF localX < 0 \/ localX >= chunk.size \/ localZ < 0 \/ localZ >= chunk.size
             THEN TRUE
             ELSE LET adjacentBlock == chunk.blocks[<<localX, y, localZ>>]
                  IN  adjacentBlock = null \/ adjacentBlock = AIR

\* Chunk.addBlockFaces: the quads one block adds, in face order
Chunk_addBlockFaces(chunk, worldX, worldY, worldZ, block) ==
    LET quad(f) == [x |-> worldX, y |-> worldY, z |-> worldZ, dir |-> f.dir,
                    color |-> Block_getBlockColor(block, f.face)]
        emit(f) == Chunk_shouldRenderFace(chunk, worldX + f.d[1], worldY + f.d[2],
                                          worldZ + f.d[3])
        all == [i \in 1..6 |-> quad(Faces[i])]
        RECURSIVE pick(_)
        pick(i) == IF i > 6 THEN << >>
                   ELSE (IF emit(Faces[i]) THEN <<all[i]>> ELSE << >>) \o pick(i + 1)
    IN  pick(1)

\* The slot the loops of buildMesh visit at step i (x outermost, then y, z)
SlotAt(chunk, i) ==
    << i \div (chunk.height * chunk.size), (i \div chunk.size) % chunk.height,
       i % chunk.size >>

\* The loops of Chunk.buildMesh over steps lo..hi: the quads of every non-air
\* block, in visiting order (the range is split in halves to bound the depth
\* of the evaluation; the result is the concatenation in loop order)
RECURSIVE MeshQuadsRange(_, _, _)
MeshQuadsRange(chunk, lo, hi) ==
    IF lo > hi THEN << >>
    ELSE IF lo = hi
    THEN LET s == SlotAt(chunk, lo)
             block == chunk.blocks[s]
         IN  IF block = null \/ block = AIR THEN << >>
             ELSE Chunk_addBlockFaces(chunk, chunk.x * chunk.size + s[1], s[2],
                                      chunk.z * chunk.size + s[3], block)
    ELSE LET mid == (lo + hi) \div 2
         IN  MeshQuadsRange(chunk, lo, mid) \o MeshQuadsRange(chunk, mid + 1, hi)

MeshQuads(chunk) == MeshQuadsRange(chunk, 0, chunk.size * chunk.height * chunk.size - 1)

\* buildMesh never finding its positions empty
NoGeometry_never(chunk) == FALSE

\* positions.length === 0 in buildMesh: no block emitted a face
NoGeometry(chunk) ==
    \A s \in DOMAIN chunk.blocks :
        \/ chunk.blocks[s] = null
        \/ chunk.blocks[s] = AIR
        \/ \A i \in 1..6 :
              ~Chunk_shouldRenderFace(chunk, chunk.x * chunk.size + s[1] + Faces[i].d[1],
                                      s[2] + Faces[i].d[2],
                                      chunk.z * chunk.size + s[3] + Faces[i].d[3])

\* buildMesh keeping a mesh the chunk already has
Chunk_buildMesh_once(chunk, id) ==
    IF chunk.mesh # NoMesh THEN chunk
    ELSE IF NoGeometry(chunk) THEN [chunk EXCEPT !.mesh = NoMesh]
    ELSE [chunk EXCEPT !.mesh = [id |-> id, blocks |-> chunk.blocks],
                       !.needsUpdate = FALSE]

\* Chunk.buildMesh: with no geometry the mesh becomes null and the method
\* returns before needsUpdate is cleared; otherwise a new Mesh object (id)
\* replaces the old one
Chunk_buildMesh(chunk, id) ==
    IF NoGeometry(chunk) THEN [chunk EXCEPT !.mesh = NoMesh]
    ELSE [chunk EXCEPT !.mesh = [id |-> id, blocks |-> chunk.blocks],
                       !.needsUpdate = FALSE]

\* The quads of the chunk's mesh, in emission order
MeshGeometry(chunk) ==
    IF chunk.mesh = NoMesh THEN << >>
    ELSE MeshQuads([chunk EXCEPT !.blocks = chunk.mesh.blocks])

(***************************************************************************)
(* Terrain (World.js).  A noise sample is an integer n in -10..10 standing *)
(* for n/10.  The noise field itself is floating-point; the streamed world *)
(* samples the fixed field NoiseField below in its place.                  *)
(***************************************************************************)
PLAINS == 0
FOREST == 1
DESERT == 2
MOUNTAINS == 3
OCEAN == 4

NoiseSamples == -10..10

\* The samples noiseGenerator.noise2D returns to getBiome (channels "t", "h")
\* and to generateHeight (channels 1, 2, 3) for column (x, z)
NoiseField(channel, x, z) ==
    CASE channel = "t" -> ((7 * x + 11 * z + 15) % 21) - 10
      [] channel = "h" -> ((5 * x + 3 * z + 2) % 21) - 10
      [] channel = "1" -> ((x + z) % 3) - 1
      [] channel = "2" -> ((2 * x + z) % 5) - 2
      [] OTHER         -> ((x + 3 * z) % 7) - 3

\* getBiome with the Desert rule taking its threshold itself
getBiome_inclusive(nt, nh) ==
    LET temperature == nt + 10
        humidity == nh + 10
    IN  IF temperature >= 16 /\ humidity < 6 THEN DESERT
        ELSE IF temperature < 8 THEN MOUNTAINS
        ELSE IF humidity > 14 /\ temperature > 10 THEN FOREST
        ELSE PLAINS

\* World.getBiome, from the two samples: temperature = (nt + 10)/20 and
\* humidity = (nh + 10)/20, compared in twentieths
getBiome(nt, nh) ==
    LET temperature == nt + 10
        humidity == nh + 10
    IN  IF temperature > 16 /\ humidity < 6 THEN DESERT
        ELSE IF temperature < 8 THEN MOUNTAINS
        ELSE IF humidity > 14 /\ temperature > 10 THEN FOREST
        ELSE PLAINS

\* generateHeight clamping before the biome adjustment
generateHeight_clampFirst(n1, n2, n3, biome, seaLevel, minHeight, maxHeight) ==
    LET base == Max(10 * minHeight,
                    Min(10 * maxHeight, 10 * seaLevel + 30 * n1 + 15 * n2 + 5 * n3))
        height == CASE biome = MOUNTAINS -> base + 200
                    [] biome = DESERT    -> base - 50
                    [] biome = OCEAN     -> 10 * (seaLevel - 10)
                    [] OTHER             -> base
    IN  FloorDiv(height, 10)

\* World.generateHeight, from the three samples, in tenths before the floor
generateHeight(n1, n2, n3, biome, seaLevel, minHeight, maxHeight) ==
    LET base == 10 * seaLevel + 30 * n1 + 15 * n2 + 5 * n3
        height == CASE biome = MOUNTAINS -> base + 200
                    [] biome = DESERT    -> base - 50
                    [] biome = OCEAN     -> 10 * (seaLevel - 10)
                    [] OTHER             -> base
    IN  FloorDiv(Max(10 * minHeight, Min(10 * maxHeight, height)), 10)

\* The banding of generateTerrain with a Dirt band of two slots under Grass
TerrainBlock_thinDirt(y, height, biome, seaLevel) ==
    IF biome = DESERT
    THEN IF y >= height - 5 /\ height > seaLevel THEN SAND ELSE STONE
    ELSE IF y = height /\ height > seaLevel THEN GRASS
         ELSE IF y >= height - 2 /\ height > seaLevel THEN DIRT
         ELSE STONE

\* The block type generateTerrain chooses for slot y of a column
TerrainBlock(y, height, biome, seaLevel) ==
    IF biome = DESERT
    THEN IF y = height /\ height > seaLevel THEN SAND
         ELSE IF y >= height - 5 /\ height > seaLevel THEN SAND
         ELSE STONE
    ELSE IF biome = MOUNTAINS
    THEN IF y = height /\ height > seaLevel + 20 THEN STONE
         ELSE IF y = height /\ height > seaLevel THEN GRASS
         ELSE IF y >= height - 2 /\ height > seaLevel THEN DIRT
         ELSE STONE
    ELSE IF y = height /\ height > seaLevel THEN GRASS
         ELSE IF y >= height - 3 /\ height > seaLevel THEN DIRT
         ELSE IF y >= height - 8 THEN STONE
         ELSE STONE

\* World.setBlockInChunk(chunk, x, y, z, blockType)
setBlockInChunk(chunk, x, y, z, blockType, worldHeight) ==
    IF y < 0 \/ y >= worldHeight THEN chunk
    ELSE Chunk_setBlock(chunk, x, y, z, blockType)

\* World.generateTerrain: the loop y = 0..height over setBlockInChunk for column
\* (x, z), written as one assignment (the iterations write distinct slots)
generateTerrain(chunk, x, z, height, biome, seaLevel, worldHeight) ==
    LET step(y) == setBlockInChunk(chunk, x, y, z, TerrainBlock(y, height, biome, seaLevel),
                                   worldHeight)
    IN  [chunk EXCEPT
            !.blocks = [s \in DOMAIN chunk.blocks |->
                           IF s[1] = x /\ s[3] = z /\ s[2] \in 0..height
                           THEN step(s[2]).blocks[s] ELSE chunk.blocks[s]],
            !.needsUpdate = chunk.needsUpdate \/ \E y \in 0..height : step(y).needsUpdate]

\* World.shouldGenerateTree: the chance in thousandths; Math.random() < chance
\* can hold only when the chance is positive
TreeChance(biome) ==
    CASE biome = FOREST    -> 80
      [] biome = PLAINS    -> 10
      [] biome = MOUNTAINS -> 5
      [] OTHER             -> 0

(***************************************************************************)
(* World (World.js), at the Sim scale.  The threaded record w holds the    *)
(* chunk table (chunks), the render scene as the set of Mesh ids it holds  *)
(* (scene) and the numbers of Mesh and Chunk objects constructed so far.   *)
(***************************************************************************)
ChunkKey(x, z) == <<x, z>>

\* World.getBlock(x, y, z)
World_getBlock(chunks, x, y, z) ==
    IF y < 0 \/ y >= SimChunkHeight THEN null
    ELSE LET chunkKey == ChunkKey(ChunkCoord(x, SimChunkSize), ChunkCoord(z, SimChunkSize))
         IN  IF chunkKey \notin DOMAIN chunks THEN null
             ELSE Chunk_getBlock(chunks[chunkKey], LocalCoord(x, SimChunkSize), y,
                                 LocalCoord(z, SimChunkSize))

\* World.isBlockSolid(x, y, z)
World_isBlockSolid(chunks, x, y, z) ==
    LET block == World_getBlock(chunks, x, y, z)
    IN  IF block # null THEN Block_isBlockSolid(block) ELSE FALSE

\* The scene after World.setBlock's mesh swap: the chunk's mesh is by then
\* the rebuilt one, which is removed and added again
SwapMesh(scene, chunk) ==
    IF chunk.mesh # NoMesh THEN (scene \ {chunk.mesh.id}) \cup {chunk.mesh.id}
    ELSE scene

\* World.setBlock without its test of y
World_setBlock_anyY(w, x, y, z, blockType) ==
    LET chunkKey == ChunkKey(ChunkCoord(x, SimChunkSize), ChunkCoord(z, SimChunkSize))
    IN  IF chunkKey \notin DOMAIN w.chunks THEN [w |-> w, ret |-> FALSE]
        ELSE LET localX == LocalCoord(x, SimChunkSize)
                 localZ == LocalCoord(z, SimChunkSize)
                 stored == IF blockType # null /\ blockType # AIR
                           THEN blockType ELSE null
                 set == Chunk_setBlock(w.chunks[chunkKey], localX, y, localZ, stored)
                 built == Chunk_buildMesh(set, w.meshSeq + 1)
             IN  [w |-> [w EXCEPT !.chunks[chunkKey] = built,
                                  !.scene = SwapMesh(w.scene, built),
                                  !.meshSeq = IF built.mesh # NoMesh
                                              THEN w.meshSeq + 1 ELSE w.meshSeq],
                  ret |-> TRUE]

\* World.setBlock(x, y, z, blockType): [w, ret]
World_setBlock(w, x, y, z, blockType) ==
    IF y < 0 \/ y >= SimChunkHeight THEN [w |-> w, ret |-> FALSE]
    ELSE LET chunkKey == ChunkKey(ChunkCoord(x, SimChunkSize), ChunkCoord(z, SimChunkSize))
         IN  IF chunkKey \notin DOMAIN w.chunks THEN [w |-> w, ret |-> FALSE]
             ELSE LET localX == LocalCoord(x, SimChunkSize)
                      localZ == LocalCoord(z, SimChunkSize)
                      stored == IF blockType # null /\ blockType # AIR
                                THEN blockType ELSE null
                      set == Chunk_setBlock(w.chunks[chunkKey], localX, y, localZ, stored)
                      built == Chunk_buildMesh(set, w.meshSeq + 1)
                  IN  [w |-> [w EXCEPT !.chunks[chunkKey] = built,
                                       !.scene = SwapMesh(w.scene, built),
                                       !.meshSeq = IF built.mesh # NoMesh
                                                   THEN w.meshSeq + 1 ELSE w.meshSeq],
                       ret |-> TRUE]

\* The run calls[lo..hi] of setBlock calls <<x, y, z, type>>, in order, results
\* ignored (the run is split in halves to bound the depth of the evaluation)
RECURSIVE SetBlocks(_, _, _, _)
SetBlocks(w, calls, lo, hi) ==
    IF lo > hi THEN w
    ELSE IF lo = hi
    THEN World_setBlock(w, calls[lo][1], calls[lo][2], calls[lo][3], calls[lo][4]).w
    ELSE LET mid == (lo + hi) \div 2
             first == SetBlocks(w, calls, lo, mid)
         IN  IF first.meshSeq >= 0 THEN SetBlocks(first, calls, mid + 1, hi) ELSE first

(***************************************************************************)
(* Trees.  The draws of Math.random are inputs: a tree draw is the record  *)
(* [x, z, treeHeight, stunted, leaves] for the column whose draw succeeds  *)
(* (stunted: the 30% early return in Mountains; leaves: which candidate    *)
(* offsets pass the 80% draw), and NoTree when no draw succeeds.           *)
(***************************************************************************)
NoTree == [x |-> 0, z |-> 0, treeHeight |-> 0, stunted |-> FALSE, leaves |-> "none"]

LeafAccepted(pattern, dx, dy, dz) ==
    CASE pattern = "all"  -> TRUE
      [] pattern = "even" -> (dx + dy + dz) % 2 = 0
      [] OTHER            -> FALSE

\* The setBlock calls of generateTree, in call order
TreeCalls(x, y, z, biome, draw) ==
    LET treeHeight == draw.treeHeight
        trunk == [i \in 1..treeHeight |-> <<x, y + (i - 1), z, WOOD>>]
        leavesY == y + treeHeight - 1
        leavesSize == IF biome = FOREST THEN 3 ELSE 2
        maxDistance == IF biome = FOREST THEN 4 ELSE 3
        side == 2 * leavesSize + 1
        candidates == [i \in 1..(side * side * 3) |->
                          [dx |-> ((i - 1) \div (side * 3)) - leavesSize,
                           dz |-> (((i - 1) \div 3) % side) - leavesSize,
                           dy |-> (i - 1) % 3]]
        placed(c) == /\ ~(c.dx = 0 /\ c.dz = 0 /\ c.dy = 0)
                     /\ Abs(c.dx) + Abs(c.dz) + Abs(c.dy) <= maxDistance
                     /\ LeafAccepted(draw.leaves, c.dx, c.dy, c.dz)
        chosen == SelectSeq(candidates, placed)
        leaves == [i \in 1..Len(chosen) |->
                      <<x + chosen[i].dx, leavesY + chosen[i].dy, z + chosen[i].dz, LEAVES>>]
    IN  IF biome = MOUNTAINS /\ draw.stunted THEN << >>
        ELSE trunk \o leaves

\* World.generateTree(x, y, z, biome)
generateTree(w, x, y, z, biome, draw) ==
    LET calls == TreeCalls(x, y, z, biome, draw)
    IN  SetBlocks(w, calls, 1, Len(calls))

\* The body of generateChunk's column loop for local column i (x outermost):
\* [w, chunk] after columns i, i+1, ...
RECURSIVE generateColumns(_, _, _, _)
generateColumns(w, chunk, i, draw) ==
    IF i >= SimChunkSize * SimChunkSize THEN [w |-> w, chunk |-> chunk]
    ELSE LET x == i \div SimChunkSize
             z == i % SimChunkSize
             worldX == chunk.x * SimChunkSize + x
             worldZ == chunk.z * SimChunkSize + z
             biome == getBiome(NoiseField("t", worldX, worldZ),
                               NoiseField("h", worldX, worldZ))
             height == generateHeight(NoiseField("1", worldX, worldZ),
                                      NoiseField("2", worldX, worldZ),
                                      NoiseField("3", worldX, worldZ),
                                      biome, SimSeaLevel, SimMinHeight, SimMaxHeight)
             filled == generateTerrain(chunk, x, z, height, biome, SimSeaLevel,
                                       SimChunkHeight)
             tree == height > SimSeaLevel /\ TreeChance(biome) > 0
                     /\ draw # NoTree /\ draw.x = worldX /\ draw.z = worldZ
         IN  generateColumns(IF tree
                             THEN generateTree(w, worldX, height + 1, worldZ, biome, draw)
                             ELSE w,
                             filled, i + 1, draw)

\* World.generateChunk(chunkX, chunkZ)
generateChunk(w, chunkX, chunkZ, draw) ==
    LET fresh == NewChunk(chunkX, chunkZ, SimChunkSize, SimChunkHeight, w.chunkSeq + 1)
        done == generateColumns(w, fresh, 0, draw)
        built == Chunk_buildMesh(done.chunk, done.w.meshSeq + 1)
        key == ChunkKey(chunkX, chunkZ)
    IN  [chunks |-> [k \in DOMAIN done.w.chunks \cup {key} |->
                        IF k = key THEN built ELSE done.w.chunks[k]],
         scene |-> IF built.mesh # NoMesh THEN done.w.scene \cup {built.mesh.id}
                   ELSE done.w.scene,
         meshSeq |-> IF built.mesh # NoMesh THEN done.w.meshSeq + 1 ELSE done.w.meshSeq,
         chunkSeq |-> w.chunkSeq + 1]

\* World.unloadChunk(chunkKey)
unloadChunk(w, chunkKey) ==
    IF chunkKey \notin DOMAIN w.chunks THEN w
    ELSE LET chunk == w.chunks[chunkKey]
         IN  [w EXCEPT !.chunks = [k \in DOMAIN w.chunks \ {chunkKey} |-> w.chunks[k]],
                       !.scene = IF chunk.mesh # NoMesh THEN w.scene \ {chunk.mesh.id}
                                 ELSE w.scene]

\* Chebyshev distance of chunk key k from the player's chunk
ChunkDistance(k, playerChunkX, playerChunkZ) ==
    Max(Abs(k[1] - playerChunkX), Abs(k[2] - playerChunkZ))

\* The first loop of updateChunks without the chunks.has test
RECURSIVE generateAround_regenerating(_, _, _, _, _)
generateAround_regenerating(w, playerChunkX, playerChunkZ, i, draw) ==
    LET side == 2 * SimRenderDistance + 1
    IN  IF i >= side * side THEN w
        ELSE LET x == playerChunkX - SimRenderDistance + (i \div side)
                 z == playerChunkZ - SimRenderDistance + (i % side)
                 again == generateChunk(w, x, z, draw)
             IN  IF again.chunkSeq > w.chunkSeq
                 THEN generateAround_regenerating(again, playerChunkX, playerChunkZ,
                                                  i + 1, draw)
                 ELSE w

\* The first loop of updateChunks, from step i of the square scan
RECURSIVE generateAround(_, _, _, _, _)
generateAround(w, playerChunkX, playerChunkZ, i, draw) ==
    LET side == 2 * SimRenderDistance + 1
    IN  IF i >= side * side THEN w
        ELSE LET x == playerChunkX - SimRenderDistance + (i \div side)
                 z == playerChunkZ - SimRenderDistance + (i % side)
             IN  generateAround(IF ChunkKey(x, z) \notin DOMAIN w.chunks
                                THEN generateChunk(w, x, z, draw) ELSE w,
                                playerChunkX, playerChunkZ, i + 1, draw)

\* chunksToRemove unloading at the margin itself
chunksToRemove_atMargin(chunks, playerChunkX, playerChunkZ) ==
    {k \in DOMAIN chunks :
        ChunkDistance(k, playerChunkX, playerChunkZ) >= SimRenderDistance + unloadMargin}

\* chunksToRemove without a margin
chunksToRemove_noMargin(chunks, playerChunkX, playerChunkZ) ==
    {k \in DOMAIN chunks :
        ChunkDistance(k, playerChunkX, playerChunkZ) > SimRenderDistance}

\* The chunks updateChunks collects for removal
chunksToRemove(chunks, playerChunkX, playerChunkZ) ==
    {k \in DOMAIN chunks :
        ChunkDistance(k, playerChunkX, playerChunkZ) > SimRenderDistance + unloadMargin}

\* unloadChunk for every key of a set: each call drops its own key and
\* withdraws its own mesh, so what is left is what every single call leaves
unloadAll(w, keys) ==
    LET gone == keys \cap DOMAIN w.chunks
        kept == {k \in DOMAIN w.chunks : \A q \in gone : k \in DOMAIN unloadChunk(w, q).chunks}
    IN  [w EXCEPT !.chunks = [k \in kept |-> w.chunks[k]],
                  !.scene = {m \in w.scene : \A q \in gone : m \in unloadChunk(w, q).scene}]

\* updateChunks with the player's chunk rounded towards zero
updateChunks_truncating(w, px, pz, draw) ==
    LET playerChunkX == IF px >= 0 THEN px \div SimChunkSize ELSE -((-px) \div SimChunkSize)
        playerChunkZ == IF pz >= 0 THEN pz \div SimChunkSize ELSE -((-pz) \div SimChunkSize)
        loaded == generateAround(w, playerChunkX, playerChunkZ, 0, draw)
    IN  unloadAll(loaded, chunksToRemove(loaded.chunks, playerChunkX, playerChunkZ))

\* World.update(playerPosition) = World.updateChunks(playerPosition)
updateChunks(w, px, pz, draw) ==
    LET playerChunkX == FloorDiv(px, SimChunkSize)
        playerChunkZ == FloorDiv(pz, SimChunkSize)
        loaded == generateAround(w, playerChunkX, playerChunkZ, 0, draw)
    IN  unloadAll(loaded, chunksToRemove(loaded.chunks, playerChunkX, playerChunkZ))

\* World.clear()
World_clear(w) == unloadAll(w, DOMAIN w.chunks)

(***************************************************************************)
(* Player (Player.js).  Time advances in ticks of 1/TicksPerSecond s, the  *)
(* deltaTime of a frame being a whole number of ticks.  Lengths are in     *)
(* units of 1/Unit voxel and speeds in units of 1/TicksPerSecond voxel per *)
(* second, so that a speed v moves the body v length units in one tick and *)
(* gravity changes the vertical speed by 25 speed units in one tick.       *)
(***************************************************************************)
Unit == TicksPerSecond * TicksPerSecond

\* this.height = 1.8, this.radius = 0.3, the 0.1 of playerYTop
height == (18 * Unit) \div 10
radius == (3 * Unit) \div 10
headMargin == Unit \div 10

\* this.gravity = -25.0, this.walkSpeed = 5.0, this.jumpSpeed = 8.0
gravity == -25
walkSpeed == 5 * TicksPerSecond
jumpSpeed == 8 * TicksPerSecond

\* new Player(camera), placed at (x, y, z)
NewPlayer(x, y, z) ==
    [x |-> x, y |-> y, z |-> z, vx |-> 0, vy |-> 0, vz |-> 0, onGround |-> FALSE]

\* Player.handleMovement: move is the movement vector after normalisation and
\* scaling by the speed (<<0, 0>> with no input), jump the isJumping flag
handleMovement(p, move, jump) ==
    LET moved == [p EXCEPT !.vx = move[1], !.vz = move[2]]
    IN  IF jump /\ moved.onGround
        THEN [moved EXCEPT !.vy = jumpSpeed, !.onGround = FALSE]
        ELSE moved

\* The voxel column or layer of a length
Voxel(a) == FloorDiv(a, Unit)

\* What handleCollisions did on the horizontal axes: which were tested and
\* reverted, and the columns minX..maxX its Z test ranged over
NoScan ==
    [xTested |-> FALSE, xReverted |-> FALSE, zTested |-> FALSE, zReverted |-> FALSE,
     minX |-> 0, maxX |-> 0]

\* handleCollisions taking the check below only for a falling body
handleCollisions_strictDescent(p, nx, ny, nz, chunks) ==
    LET feetY == Voxel(ny)
        headY == Voxel(ny + height)
        minX == Voxel(nx - radius)
        maxX == Voxel(nx + radius)
        minZ == Voxel(nz - radius)
        maxZ == Voxel(nz + radius)
        below == \E x \in minX..maxX, z \in minZ..maxZ :
                     World_isBlockSolid(chunks, x, feetY, z)
        above == \E x \in minX..maxX, z \in minZ..maxZ :
                     World_isBlockSolid(chunks, x, headY, z)
        y1 == IF p.vy < 0 THEN (IF below THEN (feetY + 1) * Unit ELSE ny)
              ELSE (IF above THEN headY * Unit - height ELSE ny)
        vy1 == IF (p.vy < 0 /\ below) \/ (p.vy >= 0 /\ above) THEN 0 ELSE p.vy
        onGround1 == p.vy < 0 /\ below
        playerY == Voxel(y1)
        playerYTop == Voxel(y1 + height - headMargin)
        checkX == IF p.vx > 0 THEN Voxel(nx + radius) ELSE Voxel(nx - radius)
        collisionX == /\ p.vx # 0
                      /\ \E y \in playerY..playerYTop, z \in minZ..maxZ :
                            World_isBlockSolid(chunks, checkX, y, z)
        checkZ == IF p.vz > 0 THEN Voxel(nz + radius) ELSE Voxel(nz - radius)
        collisionZ == /\ p.vz # 0
                      /\ \E y \in playerY..playerYTop, x \in minX..maxX :
                            World_isBlockSolid(chunks, x, y, checkZ)
    IN  [player |-> [x |-> IF collisionX THEN p.x ELSE nx,
                     y |-> y1,
                     z |-> IF collisionZ THEN p.z ELSE nz,
                     vx |-> IF collisionX THEN 0 ELSE p.vx,
                     vy |-> vy1,
                     vz |-> IF collisionZ THEN 0 ELSE p.vz,
                     onGround |-> onGround1],
         scan |-> [xTested |-> p.vx # 0, xReverted |-> collisionX,
                   zTested |-> p.vz # 0, zReverted |-> collisionZ,
                   minX |-> minX, maxX |-> maxX],
         chunks |-> chunks]

\* handleCollisions reverting a blocked X position without stopping the body
handleCollisions_keepVelocity(p, nx, ny, nz, chunks) ==
    LET feetY == Voxel(ny)
        headY == Voxel(ny + height)
        minX == Voxel(nx - radius)
        maxX == Voxel(nx + radius)
        minZ == Voxel(nz - radius)
        maxZ == Voxel(nz + radius)
        below == \E x \in minX..maxX, z \in minZ..maxZ :
                     World_isBlockSolid(chunks, x, feetY, z)
        above == \E x \in minX..maxX, z \in minZ..maxZ :
                     World_isBlockSolid(chunks, x, headY, z)
        y1 == IF p.vy <= 0 THEN (IF below THEN (feetY + 1) * Unit ELSE ny)
              ELSE (IF above THEN headY * Unit - height ELSE ny)
        vy1 == IF (p.vy <= 0 /\ below) \/ (p.vy > 0 /\ above) THEN 0 ELSE p.vy
        onGround1 == p.vy <= 0 /\ below
        playerY == Voxel(y1)
        playerYTop == Voxel(y1 + height - headMargin)
        checkX == IF p.vx > 0 THEN Voxel(nx + radius) ELSE Voxel(nx - radius)
        collisionX == /\ p.vx # 0
                      /\ \E y \in playerY..playerYTop, z \in minZ..maxZ :
                            World_isBlockSolid(chunks, checkX, y, z)
        checkZ == IF p.vz > 0 THEN Voxel(nz + radius) ELSE Voxel(nz - radius)
        collisionZ == /\ p.vz # 0
                      /\ \E y \in playerY..playerYTop, x \in minX..maxX :
                            World_isBlockSolid(chunks, x, y, checkZ)
    IN  [player |-> [x |-> IF collisionX THEN p.x ELSE nx,
                     y |-> y1,
                     z |-> IF collisionZ THEN p.z ELSE nz,
                     vx |-> p.vx,
                     vy |-> vy1,
                     vz |-> IF collisionZ THEN 0 ELSE p.vz,
                     onGround |-> onGround1],
         scan |-> [xTested |-> p.vx # 0, xReverted |-> collisionX,
                   zTested |-> p.vz # 0, zReverted |-> collisionZ,
                   minX |-> minX, maxX |-> maxX],
         chunks |-> chunks]

\* Player.handleCollisions(nextPosition, world): [player, scan, chunks], the
\* player holding nextPosition as the method leaves it and chunks the world's
\* chunk table as the method leaves it (its only calls on the world are
\* isBlockSolid)
handleCollisions(p, nx, ny, nz, chunks) ==
    LET feetY == Voxel(ny)
        headY == Voxel(ny + height)
        minX == Voxel(nx - radius)
        maxX == Voxel(nx + radius)
        minZ == Voxel(nz - radius)
        maxZ == Voxel(nz + radius)
        below == \E x \in minX..maxX, z \in minZ..maxZ :
                     World_isBlockSolid(chunks, x, feetY, z)
        above == \E x \in minX..maxX, z \in minZ..maxZ :
                     World_isBlockSolid(chunks, x, headY, z)
        y1 == IF p.vy <= 0 THEN (IF below THEN (feetY + 1) * Unit ELSE ny)
              ELSE (IF above THEN headY * Unit - height ELSE ny)
        vy1 == IF (p.vy <= 0 /\ below) \/ (p.vy > 0 /\ above) THEN 0 ELSE p.vy
        onGround1 == p.vy <= 0 /\ below
        playerY == Voxel(y1)
        playerYTop == Voxel(y1 + height - headMargin)
        checkX == IF p.vx > 0 THEN Voxel(nx + radius) ELSE Voxel(nx - radius)
        collisionX == /\ p.vx # 0
                      /\ \E y \in playerY..playerYTop, z \in minZ..maxZ :
                            World_isBlockSolid(chunks, checkX, y, z)
        checkZ == IF p.vz > 0 THEN Voxel(nz + radius) ELSE Voxel(nz - radius)
        collisionZ == /\ p.vz # 0
                      /\ \E y \in playerY..playerYTop, x \in minX..maxX :
                            World_isBlockSolid(chunks, x, y, checkZ)
    IN  [player |-> [x |-> IF collisionX THEN p.x ELSE nx,
                     y |-> y1,
                     z |-> IF collisionZ THEN p.z ELSE nz,
                     vx |-> IF collisionX THEN 0 ELSE p.vx,
                     vy |-> vy1,
                     vz |-> IF collisionZ THEN 0 ELSE p.vz,
                     onGround |-> onGround1],
         scan |-> [xTested |-> p.vx # 0, xReverted |-> collisionX,
                   zTested |-> p.vz # 0, zReverted |-> collisionZ,
                   minX |-> minX, maxX |-> maxX],
         chunks |-> chunks]

\* applyPhysics marking every chunk of the world dirty
applyPhysics_marking(p, dt, chunks) ==
    LET fell == IF ~p.onGround THEN [p EXCEPT !.vy = p.vy + gravity * dt] ELSE p
        r == handleCollisions(fell, fell.x + fell.vx * dt, fell.y + fell.vy * dt,
                              fell.z + fell.vz * dt, chunks)
    IN  [r EXCEPT !.chunks = [k \in DOMAIN chunks |->
                                 [chunks[k] EXCEPT !.needsUpdate = TRUE]]]

\* Player.applyPhysics(deltaTime, world), deltaTime in ticks: [player, scan, chunks]
applyPhysics(p, dt, chunks) ==
    LET fell == IF ~p.onGround THEN [p EXCEPT !.vy = p.vy + gravity * dt] ELSE p
    IN  handleCollisions(fell, fell.x + fell.vx * dt, fell.y + fell.vy * dt,
                         fell.z + fell.vz * dt, chunks)

\* Player.update(deltaTime, world): [player, scan, chunks]
Player_update(p, move, jump, dt, chunks) ==
    applyPhysics(handleMovement(p, move, jump), dt, chunks)

(***************************************************************************)
(* State.                                                                  *)
(*   world    the World instance: [chunks, scene, meshSeq, chunkSeq]       *)
(*   last     the last call on the world, its arguments and its result,    *)
(*            and the tree draw an update's generateChunk acted on         *)
(*   log      the update calls since construction or the last clear(),     *)
(*            newest last, at most three kept: the player's chunk and the  *)
(*            numbers of chunks generated and unloaded by the call         *)
(*   updates, edits   numbers of update/clear and of setBlock calls so far *)
(*   coord    a world coordinate, the chunk size and, once resolved, the   *)
(*            chunk and local coordinates getBlock and setBlock compute    *)
(*   solo     a Chunk object on its own; soloLast the last method called   *)
(*            on it and soloCalls the number of calls so far               *)
(*   soloCall the arguments and the result of the last getBlock or         *)
(*            setBlock call on solo that SpecAccess made                   *)
(*   terr     a call of a terrain function: getBiome on two noise samples  *)
(*            or generateHeight on three samples and a biome, and, once    *)
(*            made, its result                                             *)
(*   arena    which of the worlds Arenas the player moves in               *)
(*   pworld   the chunk table of the world the player moves in             *)
(*   player   the Player: position, velocity, onGround                     *)
(*   input    the input of the last Player.update                          *)
(*   scan     what the last handleCollisions did on the horizontal axes    *)
(*   steps    number of Player.update calls so far                         *)
(*   gens     the NoiseGenerator instances: seed and permutation table     *)
(*   nlog     the noise2D and getBiome calls made so far, with results     *)
(*   ncalls   number of noise2D and getBiome calls so far                  *)
(*   game     the Game: isRunning, isPaused, isMenuOpen, the display of    *)
(*            the pause and settings menus, whether the player is where    *)
(*            the last reset put it and whether the world holds chunks     *)
(*   hidden   document.hidden                                              *)
(*   frame    what the last animate callback did                           *)
(*   frames   number of animate callbacks so far                           *)
(***************************************************************************)
VARIABLES world, last, log, updates, edits, coord, solo, soloLast, soloCalls, soloCall,
          arena, pworld, player, input, scan, steps, terr, gens, nlog, ncalls,
          game, hidden, frame, frames

worldVars == <<world, last, log, updates, edits>>
coordVars == <<coord>>
chunkVars == <<solo, soloLast, soloCalls, soloCall>>
playerVars == <<arena, pworld, player, input, scan, steps>>

terrainVars == <<terr>>
noiseVars == <<gens, nlog, ncalls>>
gameVars == <<game, hidden, frame, frames>>

vars == <<worldVars, coordVars, chunkVars, playerVars, terrainVars, noiseVars, gameVars>>

EmptyWorld ==
    [chunks |-> [k \in {} |-> null], scene |-> {}, meshSeq |-> 0, chunkSeq |-> 0]

NoCall ==
    [op |-> "none", x |-> 0, y |-> 0, z |-> 0, type |-> null, ret |-> FALSE,
     tree |-> NoTree]

\* Inputs of the streamed world: player positions, tree draws, edits
ObsPositions ==
    {<<-2 * SimChunkSize, 0>>, <<-1, -1>>, <<0, 0>>, <<3 * SimChunkSize - 1, 0>>}
EditCalls ==
    ({<<-1, SimMaxHeight, -1>>, <<0, SimMaxHeight + 1, 0>>} \X {null, AIR, STONE, WATER})
    \cup {<<<<0, -1, 0>>, STONE>>, <<<<-1, SimChunkHeight, 0>>, null>>}
TreeSites == {<<-1, 0>>}
TreeHeights == {4, 5, 6}

TreeDraws ==
    {NoTree} \cup
    {[x |-> c[1], z |-> c[2], treeHeight |-> h, stunted |-> st, leaves |-> lv] :
        c \in TreeSites, h \in TreeHeights, st \in BOOLEAN, lv \in {"all", "even"}}

\* The draw can matter: its column is generated by this update
DrawApplies(w, px, pz, draw) ==
    \/ draw = NoTree
    \/ LET key == ChunkKey(ChunkCoord(draw.x, SimChunkSize), ChunkCoord(draw.z, SimChunkSize))
           biome == getBiome(NoiseField("t", draw.x, draw.z), NoiseField("h", draw.x, draw.z))
       IN  /\ key \notin DOMAIN w.chunks
           /\ ChunkDistance(key, FloorDiv(px, SimChunkSize), FloorDiv(pz, SimChunkSize))
                  <= SimRenderDistance
           /\ (draw.stunted => biome = MOUNTAINS)

\* The biome and the height generateChunk computes for column (x, z)
ColumnBiome(x, z) == getBiome(NoiseField("t", x, z), NoiseField("h", x, z))
ColumnHeight(x, z) ==
    generateHeight(NoiseField("1", x, z), NoiseField("2", x, z), NoiseField("3", x, z),
                   ColumnBiome(x, z), SimSeaLevel, SimMinHeight, SimMaxHeight)

\* The draw for which generateChunk calls generateTree, NoTree if it does not
PlacedTree(draw) ==
    IF /\ draw # NoTree
       /\ ColumnHeight(draw.x, draw.z) > SimSeaLevel
       /\ TreeChance(ColumnBiome(draw.x, draw.z)) > 0
    THEN draw ELSE NoTree

NoCoord == [x |-> 0, size |-> 1, chunk |-> 0, local |-> 0, done |-> FALSE]
NoAccess == [x |-> 0, y |-> 0, z |-> 0, block |-> null, ret |-> null]
NoTerr == [op |-> "none", a |-> 0, b |-> 0, c |-> 0, biome |-> PLAINS, out |-> 0,
           done |-> FALSE]
TerrainIdle == terr = NoTerr
NoiseIdle ==
    /\ gens = << >>
    /\ nlog = {}
    /\ ncalls = 0
\* new Game(canvas): the constructor ends in start()
NewGame ==
    [isRunning |-> TRUE, isPaused |-> FALSE, isMenuOpen |-> FALSE,
     pauseMenu |-> "none", settingsMenu |-> "none",
     atSpawn |-> TRUE, worldLoaded |-> FALSE]
GameIdle ==
    /\ game = NewGame
    /\ hidden = FALSE
    /\ frame = "none"
    /\ frames = 0
NoInput == [move |-> <<0, 0>>, jump |-> FALSE, dt |-> 0]

\* The variables of the parts of the program a specification leaves alone
WorldIdle ==
    /\ world = EmptyWorld
    /\ last = NoCall
    /\ log = << >>
    /\ updates = 0
    /\ edits = 0
CoordIdle == coord = NoCoord
ChunkIdle ==
    /\ solo = NewChunk(0, 0, SimChunkSize, SimChunkHeight, 0)
    /\ soloLast = "new"
    /\ soloCalls = 0
    /\ soloCall = NoAccess
PlayerIdle ==
    /\ arena = 1
    /\ pworld = [k \in {} |-> null]
    /\ player = NewPlayer(0, 0, 0)
    /\ input = NoInput
    /\ scan = NoScan
    /\ steps = 0

WorldInit ==
    /\ world = EmptyWorld
    /\ last = NoCall
    /\ log = << >>
    /\ updates = 0
    /\ edits = 0

Keep3(s) == IF Len(s) > 3 THEN Tail(s) ELSE s

\* Game.update -> World.update(player.position)
Update(px, pz, draw) ==
    /\ updates < MaxUpdates
    /\ DrawApplies(world, px, pz, draw)
    /\ LET after == updateChunks(world, px, pz, draw)
           playerChunk == <<FloorDiv(px, SimChunkSize), FloorDiv(pz, SimChunkSize)>>
           around == {k \in (playerChunk[1] - SimRenderDistance ..
                             playerChunk[1] + SimRenderDistance)
                            \X (playerChunk[2] - SimRenderDistance ..
                                playerChunk[2] + SimRenderDistance) : TRUE}
           generated == around \ DOMAIN world.chunks
           unloaded == (DOMAIN world.chunks \cup generated) \ DOMAIN after.chunks
       IN  /\ world' = after
           /\ last' = [op |-> "update", x |-> px, y |-> 0, z |-> pz, type |-> null,
                       ret |-> TRUE, tree |-> PlacedTree(draw)]
           /\ log' = Keep3(Append(log, [chunk |-> playerChunk,
                                        generated |-> Cardinality(generated),
                                        unloaded |-> Cardinality(unloaded)]))
    /\ updates' = updates + 1
    /\ UNCHANGED <<edits, coordVars, chunkVars, playerVars, terrainVars, noiseVars, gameVars>>

\* Game.placeBlock / Game.breakBlock -> World.setBlock(x, y, z, blockType)
SetBlock(x, y, z, blockType) ==
    /\ edits < MaxEdits
    /\ LET r == World_setBlock(world, x, y, z, blockType)
       IN  /\ world' = r.w
           /\ last' = [op |-> "setBlock", x |-> x, y |-> y, z |-> z, type |-> blockType,
                       ret |-> r.ret, tree |-> NoTree]
    /\ edits' = edits + 1
    /\ UNCHANGED <<log, updates, coordVars, chunkVars, playerVars, terrainVars, noiseVars, gameVars>>

\* Game.restartGame -> World.clear()
Clear ==
    /\ updates < MaxUpdates
    /\ DOMAIN world.chunks # {}
    /\ world' = World_clear(world)
    /\ last' = [op |-> "clear", x |-> 0, y |-> 0, z |-> 0, type |-> null,
                ret |-> TRUE, tree |-> NoTree]
    /\ log' = << >>
    /\ updates' = updates + 1
    /\ UNCHANGED <<edits, coordVars, chunkVars, playerVars, terrainVars, noiseVars, gameVars>>

Init == WorldInit /\ CoordIdle /\ ChunkIdle /\ PlayerIdle /\ TerrainIdle /\ NoiseIdle /\ GameIdle

Next ==
    \/ \E p \in ObsPositions, draw \in TreeDraws : Update(p[1], p[2], draw)
    \/ \E c \in EditCalls : SetBlock(c[1][1], c[1][2], c[1][3], c[2])
    \/ Clear

Spec == Init /\ [][Next]_vars

(***************************************************************************)
(* Claims about the streamed world (specification Spec).                   *)
(***************************************************************************)
\* The player's chunk of the last update call
LastPlayerChunk == <<FloorDiv(last.x, SimChunkSize), FloorDiv(last.z, SimChunkSize)>>

Near(c) ==
    (c[1] - SimRenderDistance .. c[1] + SimRenderDistance)
        \X (c[2] - SimRenderDistance .. c[2] + SimRenderDistance)

\* C1: after World.update(p) returns, every chunk coordinate within Chebyshev
\* distance renderDistance of the player's chunk (floor(p.x / chunkSize),
\* floor(p.z / chunkSize)) is in the chunk table, whatever the table held before.
C1_NearChunksLoaded ==
    last.op = "update" => \A k \in Near(LastPlayerChunk) : k \in DOMAIN world.chunks

\* An update at a negative position, on a table loaded by earlier updates,
\* that generated chunks and unloaded others
C1_Witness ==
    /\ last.op = "update" /\ last.x < 0 /\ Len(log) >= 2
    /\ log[Len(log)].generated > 0 /\ log[Len(log)].unloaded > 0

\* C2: after World.update(p) returns no loaded chunk is farther than
\* renderDistance + 2 from the player's chunk, and every chunk that was loaded
\* before the call at distance <= renderDistance + 2 (exactly renderDistance + 2
\* included) is still loaded and is the same Chunk object.
C2_Step ==
    last'.op = "update" =>
        LET pc == <<FloorDiv(last'.x, SimChunkSize), FloorDiv(last'.z, SimChunkSize)>>
        IN  /\ \A k \in DOMAIN world'.chunks :
                  ChunkDistance(k, pc[1], pc[2]) <= SimRenderDistance + 2
            /\ \A k \in DOMAIN world.chunks :
                  ChunkDistance(k, pc[1], pc[2]) <= SimRenderDistance + 2
                      => /\ k \in DOMAIN world'.chunks
                         /\ world'.chunks[k].uid = world.chunks[k].uid

C2_UnloadBeyondMargin == [][C2_Step]_vars

\* An update that unloaded chunks and kept one at exactly renderDistance + 2
C2_Witness ==
    /\ last.op = "update" /\ Len(log) >= 2 /\ log[Len(log)].unloaded > 0
    /\ \E k \in DOMAIN world.chunks :
          ChunkDistance(k, LastPlayerChunk[1], LastPlayerChunk[2]) = SimRenderDistance + 2

\* C3: hysteresis.  When update has been called at two positions whose chunks
\* are at Chebyshev distance at most 2, a further update at either of the two
\* generates no chunk and unloads no chunk.
C3_NoThrashing ==
    (/\ Len(log) = 3
     /\ ChunkDistance(log[1].chunk, log[2].chunk[1], log[2].chunk[2]) <= 2
     /\ log[3].chunk \in {log[1].chunk, log[2].chunk})
        => log[3].generated = 0 /\ log[3].unloaded = 0

\* The player went from one chunk to another two chunks away and back, the
\* first move having loaded chunks
C3_Witness ==
    /\ Len(log) = 3
    /\ ChunkDistance(log[1].chunk, log[2].chunk[1], log[2].chunk[2]) = 2
    /\ log[3].chunk = log[1].chunk
    /\ log[2].generated > 0

\* The block setBlock stores for a requested type, and its solidity
Stored(type) == IF type = null \/ type = AIR THEN null ELSE type

\* C4: after setBlock(x, y, z, T) has returned true, getBlock(x, y, z) is a
\* voxel of type T (absent when T is AIR or null), isBlockSolid(x, y, z) is the
\* declared solidity of T (false when absent), and no other voxel slot of the
\* world has changed.
C4_Step ==
    (last'.op = "setBlock" /\ last'.ret) =>
        LET x == last'.x
            y == last'.y
            z == last'.z
            key == ChunkKey(FloorDiv(x, SimChunkSize), FloorDiv(z, SimChunkSize))
            slot == <<x - key[1] * SimChunkSize, y, z - key[2] * SimChunkSize>>
        IN  /\ World_getBlock(world'.chunks, x, y, z) = Stored(last'.type)
            /\ World_isBlockSolid(world'.chunks, x, y, z)
                   = (IF Stored(last'.type) = null THEN FALSE
                      ELSE BlockData[last'.type].solid)
            /\ DOMAIN world'.chunks = DOMAIN world.chunks
            /\ \A k \in DOMAIN world.chunks :
                  \A s \in DOMAIN world.chunks[k].blocks :
                      (k # key \/ s # slot)
                          => world'.chunks[k].blocks[s] = world.chunks[k].blocks[s]

C4_SetGetConsistent == [][C4_Step]_vars

\* A non-solid voxel stored at a negative world coordinate
C4_Witness ==
    /\ last.op = "setBlock" /\ last.ret /\ last.x < 0 /\ last.z < 0
    /\ last.type = WATER
    /\ World_getBlock(world.chunks, last.x, last.y, last.z) = WATER

\* The target of a block access is not available: y out of range or the chunk
\* not loaded
Unavailable(chunks, x, y, z) ==
    \/ y < 0
    \/ y >= SimChunkHeight
    \/ ChunkKey(FloorDiv(x, SimChunkSize), FloorDiv(z, SimChunkSize)) \notin DOMAIN chunks

ProbeCoords ==
    (-2 * SimChunkSize .. 2 * SimChunkSize) \X {-1, 0, SimChunkHeight - 1, SimChunkHeight}
        \X {-1, 0}

\* C5: when the chunk is not loaded or y is outside [0, chunkHeight), getBlock
\* returns absent and isBlockSolid false, and setBlock returns false and
\* leaves the chunk table, every chunk's voxels and mesh, and the scene
\* unchanged.
C5_Step ==
    /\ \A c \in ProbeCoords :
          Unavailable(world'.chunks, c[1], c[2], c[3])
              => /\ World_getBlock(world'.chunks, c[1], c[2], c[3]) = null
                 /\ ~World_isBlockSolid(world'.chunks, c[1], c[2], c[3])
    /\ (last'.op = "setBlock" /\ Unavailable(world.chunks, last'.x, last'.y, last'.z))
          => ~last'.ret /\ world' = world

C5_UnavailableIsNoOp == [][C5_Step]_vars

\* setBlock refused for a chunk that is not loaded while others are
C5_Witness ==
    /\ last.op = "setBlock" /\ ~last.ret
    /\ last.y >= 0 /\ last.y < SimChunkHeight
    /\ DOMAIN world.chunks # {}

(***************************************************************************)
(* Coordinate resolution on its own (specification SpecCoord): a world     *)
(* coordinate is drawn, then resolved as getBlock and setBlock resolve it. *)
(***************************************************************************)
CoordSizes == {SimChunkSize, chunkSize}

CoordInit ==
    /\ coord \in {[x |-> x, size |-> n, chunk |-> 0, local |-> 0, done |-> FALSE] :
                     x \in -MaxCoord..MaxCoord, n \in CoordSizes}
    /\ WorldIdle /\ ChunkIdle /\ PlayerIdle /\ TerrainIdle /\ NoiseIdle /\ GameIdle

\* const chunkX = Math.floor(x / this.chunkSize); const localX = ((x % ...
Resolve ==
    /\ ~coord.done
    /\ coord' = [coord EXCEPT !.chunk = ChunkCoord(coord.x, coord.size),
                              !.local = LocalCoord(coord.x, coord.size),
                              !.done = TRUE]
    /\ UNCHANGED <<worldVars, chunkVars, playerVars, terrainVars, noiseVars, gameVars>>

CoordNext == Resolve

SpecCoord == CoordInit /\ [][CoordNext]_vars

\* C6: for every integer world coordinate x, chunk = floor(x / chunkSize) and
\* local = ((x mod chunkSize) + chunkSize) mod chunkSize satisfy
\* 0 <= local < chunkSize and chunk * chunkSize + local = x; x = -1 with
\* chunkSize 16 resolves to chunk -1, local 15.
C6_CoordRoundTrip ==
    coord.done =>
        /\ 0 <= coord.local /\ coord.local < coord.size
        /\ coord.chunk * coord.size + coord.local = coord.x
        /\ (coord.x = -1 /\ coord.size = 16) => (coord.chunk = -1 /\ coord.local = 15)

\* x = -1 resolved with the program's chunk size
C6_Witness ==
    /\ coord.done /\ coord.x = -1 /\ coord.size = chunkSize
    /\ coord.chunk = -1 /\ coord.local = 15

(***************************************************************************)
(* A Chunk on its own (specification SpecChunk): constructed empty, then   *)
(* Chunk.setBlock and Chunk.buildMesh in any order.                        *)
(***************************************************************************)
SoloOrigins == {<<0, 0>>, <<-1, 1>>}
VoxelSites ==
    {<<0, 0, 0>>, <<1, 0, 0>>, <<0, 1, 0>>, <<0, 0, 1>>,
     <<SimChunkSize - 1, SimChunkHeight - 1, SimChunkSize - 1>>, <<SimChunkSize, 0, 0>>}
VoxelTypes == {null, AIR, STONE, WATER}

ChunkInit ==
    /\ \E o \in SoloOrigins : solo = NewChunk(o[1], o[2], SimChunkSize, SimChunkHeight, 0)
    /\ soloLast = "new"
    /\ soloCalls = 0
    /\ soloCall = NoAccess
    /\ WorldIdle /\ CoordIdle /\ PlayerIdle /\ TerrainIdle /\ NoiseIdle /\ GameIdle

\* chunk.setBlock(x, y, z, block)
SoloSetBlock(x, y, z, block) ==
    /\ soloCalls < MaxChunkCalls
    /\ solo' = Chunk_setBlock(solo, x, y, z, block)
    /\ soloLast' = "setBlock"
    /\ soloCalls' = soloCalls + 1
    /\ UNCHANGED <<soloCall, worldVars, coordVars, playerVars, terrainVars, noiseVars, gameVars>>

\* chunk.buildMesh()
SoloBuildMesh ==
    /\ soloCalls < MaxChunkCalls
    /\ solo' = Chunk_buildMesh(solo, soloCalls + 1)
    /\ soloLast' = "buildMesh"
    /\ soloCalls' = soloCalls + 1
    /\ UNCHANGED <<soloCall, worldVars, coordVars, playerVars, terrainVars, noiseVars, gameVars>>

ChunkNext ==
    \/ \E s \in VoxelSites, t \in VoxelTypes : SoloSetBlock(s[1], s[2], s[3], t)
    \/ SoloBuildMesh

SpecChunk == ChunkInit /\ [][ChunkNext]_vars

\* The slot next to slot s in direction i, in local coordinates
Neighbour(s, i) == <<s[1] + Faces[i].d[1], s[2] + Faces[i].d[2], s[3] + Faces[i].d[3]>>

\* How many quads of the chunk's mesh belong to face i of the voxel in slot s
QuadsOf(chunk, s, i) ==
    LET q == MeshGeometry(chunk)
    IN  Cardinality({j \in 1..Len(q) :
                        /\ q[j].x = chunk.x * chunk.size + s[1]
                        /\ q[j].y = s[2]
                        /\ q[j].z = chunk.z * chunk.size + s[3]
                        /\ q[j].dir = Faces[i].dir})

Opaque(b) == b # null /\ b # AIR /\ ~Block_isBlockTransparent(b)

Voxels(chunk) == {s \in DOMAIN chunk.blocks : chunk.blocks[s] # null}

\* The (voxel, direction) pairs whose neighbouring slot is absent or outside
ExposedPairs(chunk) ==
    {e \in Voxels(chunk) \X (1..6) :
        \/ Neighbour(e[1], e[2]) \notin DOMAIN chunk.blocks
        \/ chunk.blocks[Neighbour(e[1], e[2])] = null}

Adjacent(s, t) == \E i \in 1..6 : t = Neighbour(s, i)

\* C7: for a chunk containing only opaque non-air voxels, buildMesh emits
\* exactly one quad per (voxel, direction) pair whose neighbouring slot is
\* absent or outside the chunk (on Y or on X/Z), and none for a face whose
\* in-chunk neighbour is an opaque voxel; a single voxel yields 6 quads and two
\* adjacent voxels yield 10.
C7_FaceCulling ==
    (/\ soloLast = "buildMesh"
     /\ \A s \in Voxels(solo) : Opaque(solo.blocks[s]))
        => /\ Len(MeshGeometry(solo)) = Cardinality(ExposedPairs(solo))
           /\ \A e \in ExposedPairs(solo) : QuadsOf(solo, e[1], e[2]) = 1
           /\ \A s \in Voxels(solo), i \in 1..6 :
                 <<s, i>> \notin ExposedPairs(solo) => QuadsOf(solo, s, i) = 0
           /\ Cardinality(Voxels(solo)) = 1 => Len(MeshGeometry(solo)) = 6
           /\ (/\ Cardinality(Voxels(solo)) = 2
               /\ \E s, t \in Voxels(solo) : Adjacent(s, t))
                  => Len(MeshGeometry(solo)) = 10

\* Two adjacent opaque voxels meshed in a chunk at a negative chunk coordinate
C7_Witness ==
    /\ soloLast = "buildMesh" /\ solo.x < 0
    /\ Cardinality(Voxels(solo)) = 2
    /\ \A s \in Voxels(solo) : Opaque(solo.blocks[s])
    /\ \E s, t \in Voxels(solo) : Adjacent(s, t)
    /\ Len(MeshGeometry(solo)) = 10

\* C8: for every non-air voxel and each of its 6 directions, buildMesh emits
\* the quad of that face whenever the neighbouring voxel is absent, is Air or
\* is of a transparent material: a face of a solid block that touches a Water
\* voxel is emitted.
C8_TransparentNeighbourEmits ==
    soloLast = "buildMesh" =>
        \A s \in Voxels(solo), i \in 1..6 :
            (/\ solo.blocks[s] # AIR
             /\ Block_isBlockSolid(solo.blocks[s])
             /\ \/ Neighbour(s, i) \notin DOMAIN solo.blocks
                \/ solo.blocks[Neighbour(s, i)] = null
                \/ solo.blocks[Neighbour(s, i)] = AIR
                \/ Block_isBlockTransparent(solo.blocks[Neighbour(s, i)]))
                => QuadsOf(solo, s, i) >= 1

(***************************************************************************)
(* The Player on its own (specification SpecPlayer), in one of the worlds  *)
(* Arenas: a floor at layer 0, alone, with one block standing on it, with  *)
(* a wall standing on it or with a lintel over it.                         *)
(***************************************************************************)
ArenaKeys == (-1..0) \X (-1..0)

Floor == {<<x, 0, z>> : x \in -SimChunkSize..(SimChunkSize - 1),
                        z \in -SimChunkSize..(SimChunkSize - 1)}

\* The chunk table whose solid voxels are the stone blocks at `solids`, each
\* chunk with its mesh built as generateChunk leaves it
Arena(solids) ==
    [k \in ArenaKeys |->
        LET c == NewChunk(k[1], k[2], SimChunkSize, SimChunkHeight, 0)
            filled == [c EXCEPT !.blocks =
                          [s \in DOMAIN c.blocks |->
                              IF <<k[1] * SimChunkSize + s[1], s[2],
                                   k[2] * SimChunkSize + s[3]>> \in solids
                              THEN STONE ELSE null]]
        IN  Chunk_buildMesh(filled, 2 * (k[1] + 1) + (k[2] + 1) + 1)]

\* A wall two voxels high along the columns x = 1
Wall == {<<1, y, z>> : y \in 1..2, z \in -SimChunkSize..(SimChunkSize - 1)}

\* A lintel along the columns x = 1, two free layers under it
Lintel == {<<1, 3, z>> : z \in -SimChunkSize..(SimChunkSize - 1)}

Arenas ==
    << Arena(Floor), Arena(Floor \cup {<<1, 1, 1>>}), Arena(Floor \cup Wall),
       Arena(Floor \cup Lintel) >>

\* Where the player starts, a little above the floor
Spawns ==
    {<<0, Unit + Unit \div 16, 0>>, <<Unit \div 2, Unit + Unit \div 16, Unit \div 2>>,
     <<Unit \div 2, Unit + (5 * Unit) \div 16, Unit \div 2>>}

\* Movement vectors: none, walking diagonally and along an axis
DiagWalk == (walkSpeed * 707) \div 1000
Moves == {<<0, 0>>, <<DiagWalk, DiagWalk>>, <<walkSpeed, 0>>, <<0, -walkSpeed>>}
Dts == {1}

PlayerInit ==
    /\ arena \in 1..Len(Arenas)
    /\ pworld = Arenas[arena]
    /\ \E s \in Spawns : player = NewPlayer(s[1], s[2], s[3])
    /\ input = NoInput
    /\ scan = NoScan
    /\ steps = 0
    /\ WorldIdle /\ CoordIdle /\ ChunkIdle /\ TerrainIdle /\ NoiseIdle /\ GameIdle

\* Game.update -> Player.update(deltaTime, world)
Step(move, jump, dt) ==
    /\ steps < MaxSteps
    /\ LET r == Player_update(player, move, jump, dt, pworld)
       IN  /\ player' = r.player
           /\ scan' = r.scan
           /\ pworld' = r.chunks
    /\ input' = [move |-> move, jump |-> jump, dt |-> dt]
    /\ steps' = steps + 1
    /\ UNCHANGED <<arena, worldVars, coordVars, chunkVars, terrainVars, noiseVars, gameVars>>

PlayerNext == \E move \in Moves, jump \in BOOLEAN, dt \in Dts : Step(move, jump, dt)

SpecPlayer == PlayerInit /\ [][PlayerNext]_vars

\* The columns the body overlaps on X at position x
ColumnsX(x) == <<Voxel(x - radius), Voxel(x + radius)>>

\* A body at rest exactly on top of a solid voxel layer
Resting(p, chunks) ==
    /\ p.vx = 0 /\ p.vy = 0 /\ p.vz = 0
    /\ p.onGround
    /\ p.y % Unit = 0
    /\ \E x \in Voxel(p.x - radius)..Voxel(p.x + radius),
          z \in Voxel(p.z - radius)..Voxel(p.z + radius) :
          World_isBlockSolid(chunks, x, Voxel(p.y) - 1, z)

\* C9: a body with zero velocity resting exactly on top of a solid voxel layer
\* with ground-contact true, stepped with zero horizontal input and no jump,
\* has after every single step the same position, ground-contact true and
\* vertical velocity zero.
C9_Step ==
    (/\ Resting(player, Arenas[arena])
     /\ steps' = steps + 1
     /\ input'.move = <<0, 0>> /\ ~input'.jump)
        => /\ player'.x = player.x /\ player'.y = player.y /\ player'.z = player.z
           /\ player'.onGround
           /\ player'.vy = 0

C9_RestingStaysGrounded == [][C9_Step]_vars

\* C10: the Z-axis test of handleCollisions scans the X columns the body
\* overlaps at its X-adjusted position: when the X component was reverted in
\* the step, the Z test does not scan columns of the un-reverted X position.
C10_ZTestAtAdjustedX ==
    (scan.zTested /\ scan.xReverted) => <<scan.minX, scan.maxX>> = ColumnsX(player.x)

\* C11: a physics step (Player.update) never mutates world state: the chunk
\* table and every chunk's voxel grid, dirty flag and mesh are the same before
\* and after the step.
C11_Step ==
    steps' = steps + 1 =>
        /\ DOMAIN pworld' = DOMAIN pworld
        /\ \A k \in DOMAIN pworld :
              /\ pworld'[k].blocks = pworld[k].blocks
              /\ pworld'[k].needsUpdate = pworld[k].needsUpdate
              /\ pworld'[k].mesh = pworld[k].mesh

C11_StepLeavesWorld == [][C11_Step]_vars

\* A step that landed on the floor and was stopped by a block on both axes
C11_Witness ==
    /\ steps >= 2 /\ player.onGround
    /\ scan.xReverted /\ scan.zReverted
    /\ pworld = Arenas[arena]

(***************************************************************************)
(* Block access on a Chunk on its own (specification SpecAccess):          *)
(* getBlock, setBlock and buildMesh calls with the arguments recorded.     *)
(***************************************************************************)
AccessCoords ==
    {<<0, 0, 0>>, <<SimChunkSize - 1, SimChunkHeight - 1, SimChunkSize - 1>>,
     <<-1, 0, 0>>, <<SimChunkSize, 0, 0>>, <<0, -1, 0>>, <<0, SimChunkHeight, 0>>,
     <<0, 0, -1>>, <<0, 0, SimChunkSize>>,
     <<SimChunkSize - 1, SimChunkHeight, SimChunkSize - 1>>}
AccessBlocks == {null, STONE, WATER}

\* chunk.getBlock(x, y, z)
AccessGet(x, y, z) ==
    /\ soloCalls < MaxAccessCalls
    /\ soloCall' = [x |-> x, y |-> y, z |-> z, block |-> null,
                    ret |-> Chunk_getBlock(solo, x, y, z)]
    /\ soloLast' = "getBlock"
    /\ soloCalls' = soloCalls + 1
    /\ UNCHANGED <<solo, worldVars, coordVars, playerVars, terrainVars, noiseVars, gameVars>>

\* chunk.setBlock(x, y, z, block)
AccessSet(x, y, z, block) ==
    /\ soloCalls < MaxAccessCalls
    /\ solo' = Chunk_setBlock(solo, x, y, z, block)
    /\ soloCall' = [x |-> x, y |-> y, z |-> z, block |-> block, ret |-> null]
    /\ soloLast' = "setBlock"
    /\ soloCalls' = soloCalls + 1
    /\ UNCHANGED <<worldVars, coordVars, playerVars, terrainVars, noiseVars, gameVars>>

\* chunk.buildMesh()
AccessBuild ==
    /\ soloCalls < MaxAccessCalls
    /\ solo' = Chunk_buildMesh(solo, soloCalls + 1)
    /\ soloLast' = "buildMesh"
    /\ soloCalls' = soloCalls + 1
    /\ UNCHANGED <<soloCall, worldVars, coordVars, playerVars, terrainVars, noiseVars, gameVars>>

AccessNext ==
    \/ \E c \in AccessCoords : AccessGet(c[1], c[2], c[3])
    \/ \E c \in AccessCoords, b \in AccessBlocks : AccessSet(c[1], c[2], c[3], b)
    \/ AccessBuild

SpecAccess == ChunkInit /\ [][AccessNext]_vars

\* A local coordinate violates 0 <= x < size, 0 <= y < height, 0 <= z < size
OutOfRange(chunk, x, y, z) ==
    ~(/\ 0 <= x /\ x < chunk.size
      /\ 0 <= y /\ y < chunk.height
      /\ 0 <= z /\ z < chunk.size)

\* C12: Chunk.getBlock returns absent and Chunk.setBlock changes nothing
\* (voxel grid and dirty flag) whenever a local coordinate is out of range; for
\* in-range coordinates setBlock stores the given voxel (or absent) in exactly
\* that slot, leaves every other slot unchanged and sets the dirty flag.
C12_Step ==
    soloCalls' = soloCalls + 1 =>
        LET c == soloCall'
            out == OutOfRange(solo, c.x, c.y, c.z)
        IN  /\ (soloLast' = "getBlock" /\ out) => c.ret = null
            /\ (soloLast' = "setBlock" /\ out)
                   => /\ solo'.blocks = solo.blocks
                      /\ solo'.needsUpdate = solo.needsUpdate
            /\ (soloLast' = "setBlock" /\ ~out)
                   => /\ solo'.blocks[<<c.x, c.y, c.z>>] = c.block
                      /\ \A s \in DOMAIN solo.blocks :
                            s # <<c.x, c.y, c.z>> => solo'.blocks[s] = solo.blocks[s]
                      /\ DOMAIN solo'.blocks = DOMAIN solo.blocks
                      /\ solo'.needsUpdate

C12_ChunkAccessBounds == [][C12_Step]_vars

\* A voxel stored in the last slot of a chunk whose mesh had been built, the
\* dirty flag set again
C12_Witness ==
    /\ soloLast = "setBlock"
    /\ soloCall.x = SimChunkSize - 1 /\ soloCall.y = SimChunkHeight - 1
    /\ soloCall.block = STONE
    /\ solo.mesh # NoMesh
    /\ solo.needsUpdate
    /\ Cardinality(Voxels(solo)) = 2

(***************************************************************************)
(* The terrain functions on their own (specification SpecTerrain), with    *)
(* the World's own settings: inputs are drawn, then the function is        *)
(* called.  Noise samples are in tenths, temperature and humidity in       *)
(* twentieths.                                                             *)
(***************************************************************************)
\* this.seaLevel = 32; this.maxHeight = 80; this.minHeight = 5
seaLevel == 32
maxHeight == 80
minHeight == 5

Biomes == {PLAINS, FOREST, DESERT, MOUNTAINS, OCEAN}

TerrainInit ==
    /\ terr \in
          {[op |-> "generateHeight", a |-> n1, b |-> n2, c |-> n3, biome |-> bm,
            out |-> 0, done |-> FALSE] :
              n1 \in NoiseSamples, n2 \in NoiseSamples, n3 \in {-10, -3, 0, 4, 10},
              bm \in Biomes}
          \cup
          {[op |-> "getBiome", a |-> nt, b |-> nh, c |-> 0, biome |-> PLAINS,
            out |-> 0, done |-> FALSE] : nt \in NoiseSamples, nh \in NoiseSamples}
    /\ WorldIdle /\ CoordIdle /\ ChunkIdle /\ PlayerIdle /\ NoiseIdle /\ GameIdle

\* this.generateHeight(worldX, worldZ, biome)
CallGenerateHeight ==
    /\ ~terr.done /\ terr.op = "generateHeight"
    /\ terr' = [terr EXCEPT !.out = generateHeight(terr.a, terr.b, terr.c, terr.biome,
                                                   seaLevel, minHeight, maxHeight),
                            !.done = TRUE]
    /\ UNCHANGED <<worldVars, coordVars, chunkVars, playerVars, noiseVars, gameVars>>

\* this.getBiome(worldX, worldZ)
CallGetBiome ==
    /\ ~terr.done /\ terr.op = "getBiome"
    /\ terr' = [terr EXCEPT !.out = getBiome(terr.a, terr.b), !.done = TRUE]
    /\ UNCHANGED <<worldVars, coordVars, chunkVars, playerVars, noiseVars, gameVars>>

TerrainNext == CallGenerateHeight \/ CallGetBiome

SpecTerrain == TerrainInit /\ [][TerrainNext]_vars

\* C13: for every biome and every noise value in [-1, 1], generateHeight
\* returns h with minHeight <= h <= maxHeight (5 <= h <= 80), also after the
\* Mountains +20, Desert -5 and Ocean (seaLevel - 10) adjustments.
C13_HeightBounds ==
    (terr.done /\ terr.op = "generateHeight")
        => /\ minHeight <= terr.out /\ terr.out <= maxHeight
           /\ 5 <= terr.out /\ terr.out <= 80

\* A Mountains column whose adjusted height exceeds maxHeight
C13_Witness ==
    /\ terr.done /\ terr.op = "generateHeight" /\ terr.biome = MOUNTAINS
    /\ 10 * seaLevel + 30 * terr.a + 15 * terr.b + 5 * terr.c + 200 > 10 * maxHeight
    /\ terr.out = maxHeight

\* C14: biome classification is by ordered rules over temperature and
\* humidity in [0, 1]: temperature > 0.8 and humidity < 0.3 gives Desert;
\* otherwise temperature < 0.4 gives Mountains; otherwise humidity > 0.7 and
\* temperature > 0.5 gives Forest; otherwise Plains.  Ocean is never returned.
C14_BiomeRules ==
    (terr.done /\ terr.op = "getBiome")
        => LET t20 == terr.a + 10
               h20 == terr.b + 10
               desert == t20 > 16 /\ h20 < 6
               mountains == ~desert /\ t20 < 8
               forest == ~desert /\ ~mountains /\ h20 > 14 /\ t20 > 10
           IN  /\ desert => terr.out = DESERT
               /\ mountains => terr.out = MOUNTAINS
               /\ forest => terr.out = FOREST
               /\ (~desert /\ ~mountains /\ ~forest) => terr.out = PLAINS
               /\ terr.out # OCEAN

\* Temperature exactly 0.8 with humidity below 0.3: not Desert
C14_Witness ==
    /\ terr.done /\ terr.op = "getBiome"
    /\ terr.a + 10 = 16 /\ terr.b + 10 < 6
    /\ terr.out = PLAINS

\* The current meshes of the loaded chunks
CurrentMeshes ==
    {world.chunks[k].mesh.id : k \in {q \in DOMAIN world.chunks : world.chunks[q].mesh # NoMesh}}

\* C15: after any sequence of update, setBlock and clear calls the render
\* scene contains exactly the current mesh of each loaded chunk and nothing
\* else from the world: once a chunk's mesh has been rebuilt or the chunk has
\* been unloaded, no mesh previously built for it remains in the scene.
C15_SceneConsistent == world.scene = CurrentMeshes

(***************************************************************************)
(* NoiseGenerator (NoiseGenerator.js).  Sample coordinates are fixed-point *)
(* numbers with NoiseGrid steps per unit, and the arithmetic on them is    *)
(* exact: fade returns a numerator over NoiseGrid^5, each lerp multiplies  *)
(* the denominator of its ends by NoiseGrid^5, and noise2D returns a       *)
(* numerator over NoiseDen = NoiseGrid^11.                                 *)
(***************************************************************************)
NoiseGrid == 2
MaxNoiseCalls == 3

lcgMultiplier == 16807
lcgModulus == 2147483647
permutationSize == 256

\* JavaScript's undefined (a missing array element) and NaN
undefined == null - 1
NaN == null - 2

FadeDen == NoiseGrid * NoiseGrid * NoiseGrid * NoiseGrid * NoiseGrid
NoiseDen == NoiseGrid * FadeDen * FadeDen

\* rng = (rng * 16807) % 2147483647 on doubles, where the product is exact;
\* the product is split (Schrage) to stay within 32-bit integers
NextRng(rng) ==
    LET q == lcgModulus \div lcgMultiplier
        r == lcgModulus % lcgMultiplier
        mul(x) == LET t == lcgMultiplier * (x % q) - r * (x \div q)
                  IN  IF t < 0 THEN t + lcgModulus ELSE t
    IN  IF rng >= 0 THEN mul(rng) ELSE 0 - mul(0 - rng)

\* The array p with the properties a negative index creates on it
IdentityTable ==
    [k \in (1 - permutationSize)..(permutationSize - 1) |->
        IF k >= 0 THEN k ELSE undefined]

\* One round of the shuffle loop: [p[i], p[j]] = [p[j], p[i]]; used collects
\* the indexes into p
ShuffleStep(st, i) ==
    LET rng == NextRng(st.rng)
        j == JsRem(rng, i + 1)
        pi == st.p[i]
        pj == st.p[j]
    IN  [rng |-> rng, p |-> [st.p EXCEPT ![i] = pj, ![j] = pi],
         used |-> st.used \cup {i, j}]

\* The rounds i = hi, hi - 1, ..., lo of the shuffle loop
RECURSIVE Shuffle(_, _, _)
Shuffle(st, hi, lo) ==
    IF hi = lo THEN ShuffleStep(st, hi)
    ELSE LET mid == (hi + lo) \div 2
             first == Shuffle(st, hi, mid + 1)
         IN  IF first.rng >= 0 - lcgModulus THEN Shuffle(first, mid, lo) ELSE first

\* The shuffle loop of generatePermutation for this.seed = s
ShuffleRun(s) ==
    Shuffle([rng |-> s, p |-> IdentityTable, used |-> {}], permutationSize - 1, 1)

\* NoiseGenerator.generatePermutation for this.seed = s
generatePermutation(s) ==
    LET st == ShuffleRun(s)
    IN  [i \in 0..(2 * permutationSize - 1) |-> st.p[i % permutationSize]]

\* new NoiseGenerator(s)
NewNoiseGenerator(s) == [seed |-> s, permutation |-> generatePermutation(s)]

\* fade(t) for t = k / NoiseGrid, as a numerator over FadeDen
fade(k) ==
    k * k * k * (k * (k * 6 - 15 * NoiseGrid) + 10 * NoiseGrid * NoiseGrid)

\* lerp with its ends exchanged
lerp_swapped(a, b, t) == b * FadeDen + t * (a - b)

\* lerp(a, b, t) for t a numerator over FadeDen; the result has FadeDen times
\* the denominator of a and b
lerp(a, b, t) == a * FadeDen + t * (b - a)

\* grad(hash, x, y); hash & 3 is 0 for undefined
grad(hash, x, y) ==
    LET h == IF hash \in {undefined, NaN} THEN 0 ELSE hash % 4
        u == IF h < 2 THEN x ELSE y
        v == IF h < 2 THEN y ELSE x
    IN  (IF h % 2 = 0 THEN u ELSE 0 - u) + (IF (h \div 2) % 2 = 0 THEN v ELSE 0 - v)

\* this.permutation[k]
PermAt(permutation, k) ==
    IF k \in DOMAIN permutation THEN permutation[k] ELSE undefined

\* a + b on numbers, where undefined and NaN give NaN
JsAdd(a, b) == IF a \in {undefined, NaN} THEN NaN ELSE a + b

\* The value noise2D(x / NoiseGrid, y / NoiseGrid) returns on the table perm,
\* as a numerator over NoiseDen
NoiseValue(perm, x, y) ==
    LET fx == FloorDiv(x, NoiseGrid)
        fy == FloorDiv(y, NoiseGrid)
        X == fx % permutationSize
        Y == fy % permutationSize
        xf == x - fx * NoiseGrid
        yf == y - fy * NoiseGrid
        u == fade(xf)
        v == fade(yf)
        A == JsAdd(PermAt(perm, X), Y)
        AA == PermAt(perm, A)
        AB == PermAt(perm, JsAdd(A, 1))
        B == JsAdd(PermAt(perm, X + 1), Y)
        BA == PermAt(perm, B)
        BB == PermAt(perm, JsAdd(B, 1))
    IN  lerp(lerp(grad(PermAt(perm, AA), xf, yf),
                  grad(PermAt(perm, BA), xf - NoiseGrid, yf), u),
             lerp(grad(PermAt(perm, AB), xf, yf - NoiseGrid),
                  grad(PermAt(perm, BB), xf - NoiseGrid, yf - NoiseGrid), u),
             v)

\* noise2D drawing its sample from a generator it advances
noise2D_advancing(gen, x, y) ==
    [value |-> NoiseValue(gen.permutation, x, y),
     gen |-> [gen EXCEPT !.seed = NextRng(gen.seed)]]

\* NoiseGenerator.noise2D: the value returned and the generator after the call
noise2D(gen, x, y) ==
    [value |-> NoiseValue(gen.permutation, x, y), gen |-> gen]

\* World.getBiome(x, z) on the world's noiseGenerator: the samples are taken at
\* x * 0.003 and x * 0.005 + 1000, on the grid; temperature and humidity are
\* compared as numerators over 20 * NoiseDen
World_getBiome(gen, x, z) ==
    LET nt == noise2D(gen, FloorDiv(x * 3 * NoiseGrid, 1000),
                           FloorDiv(z * 3 * NoiseGrid, 1000))
        nh == noise2D(nt.gen, FloorDiv(x * 5 * NoiseGrid, 1000) + 1000 * NoiseGrid,
                              FloorDiv(z * 5 * NoiseGrid, 1000) + 1000 * NoiseGrid)
        temperature == 10 * (nt.value + NoiseDen)
        humidity == 10 * (nh.value + NoiseDen)
    IN  [biome |->
            IF temperature > 16 * NoiseDen /\ humidity < 6 * NoiseDen THEN DESERT
            ELSE IF temperature < 8 * NoiseDen THEN MOUNTAINS
            ELSE IF humidity > 14 * NoiseDen /\ temperature > 10 * NoiseDen THEN FOREST
            ELSE PLAINS,
         gen |-> nh.gen]

(***************************************************************************)
(* Specification SpecNoise: two NoiseGenerator instances (each the         *)
(* noiseGenerator of a world) are constructed, replaced by fresh instances *)
(* and sampled through noise2D and World.getBiome.                         *)
(***************************************************************************)
Seeds == {12345, 1, -7}
Generators == 1..2

\* Sample points of noise2D, in grid steps: lattice points and points off
\* the lattice
NoisePoints ==
    {<<0, 0>>, <<0 - 3 * NoiseGrid, 0 - NoiseGrid>>, <<1, 1>>, <<0 - 1, NoiseGrid>>}

\* Columns World.getBiome is asked about
BiomeSites == {<<0, 0>>, <<500, 500>>}

\* new NoiseGenerator(s) for each of the seeds
FreshGenerators == [s \in Seeds |-> NewNoiseGenerator(s)]

NoiseInit ==
    /\ gens \in [Generators -> {FreshGenerators[s] : s \in Seeds}]
    /\ nlog = {}
    /\ ncalls = 0
    /\ WorldIdle /\ CoordIdle /\ ChunkIdle /\ PlayerIdle /\ TerrainIdle /\ GameIdle

\* gens[g] = new NoiseGenerator(s)
Construct(g, s) ==
    /\ gens' = [gens EXCEPT ![g] = FreshGenerators[s]]
    /\ UNCHANGED <<nlog, ncalls, worldVars, coordVars, chunkVars, playerVars, terrainVars, gameVars>>

\* gens[g].noise2D(x / NoiseGrid, y / NoiseGrid)
CallNoise2D(g, x, y) ==
    /\ ncalls < MaxNoiseCalls
    /\ LET r == noise2D(gens[g], x, y)
       IN  /\ gens' = [gens EXCEPT ![g] = r.gen]
           /\ nlog' = nlog \cup {[op |-> "noise2D", seed |-> gens[g].seed,
                                  x |-> x, y |-> y, out |-> r.value]}
    /\ ncalls' = ncalls + 1
    /\ UNCHANGED <<worldVars, coordVars, chunkVars, playerVars, terrainVars, gameVars>>

\* getBiome(x, z) of the world that owns gens[g]
CallWorldGetBiome(g, x, z) ==
    /\ ncalls < MaxNoiseCalls
    /\ LET r == World_getBiome(gens[g], x, z)
       IN  /\ gens' = [gens EXCEPT ![g] = r.gen]
           /\ nlog' = nlog \cup {[op |-> "getBiome", seed |-> gens[g].seed,
                                  x |-> x, y |-> z, out |-> r.biome]}
    /\ ncalls' = ncalls + 1
    /\ UNCHANGED <<worldVars, coordVars, chunkVars, playerVars, terrainVars, gameVars>>

NoiseNext ==
    \/ \E g \in Generators, s \in Seeds : Construct(g, s)
    \/ \E g \in Generators, c \in NoisePoints : CallNoise2D(g, c[1], c[2])
    \/ \E g \in Generators, c \in BiomeSites : CallWorldGetBiome(g, c[1], c[2])

SpecNoise == NoiseInit /\ [][NoiseNext]_vars

\* Integer coordinates probed on every generator
LatticeProbe == {-257, -256, -2, -1, 0, 1, 2, 255, 256}
OnLattice(c) == c.x % NoiseGrid = 0 /\ c.y % NoiseGrid = 0

\* C16: lattice property: for all integers i and j (negative included),
\* noise2D(i, j) evaluates to exactly 0, for every seed.
C16_LatticeZero ==
    /\ \A g \in DOMAIN gens : \A i \in LatticeProbe, j \in LatticeProbe :
           noise2D(gens[g], i * NoiseGrid, j * NoiseGrid).value = 0
    /\ \A c \in nlog : (c.op = "noise2D" /\ OnLattice(c)) => c.out = 0

\* A call at a lattice point with a negative coordinate returned 0, on a
\* generator that returns a non-zero sample off the lattice
C16_Witness ==
    \E c \in nlog, d \in nlog :
        /\ c.op = "noise2D" /\ OnLattice(c) /\ c.x < 0 /\ c.y < 0 /\ c.out = 0
        /\ d.op = "noise2D" /\ d.seed = c.seed /\ ~OnLattice(d) /\ d.out # 0

C17_State ==
    /\ \A g \in DOMAIN gens, h \in DOMAIN gens :
           gens[g].seed = gens[h].seed => gens[g].permutation = gens[h].permutation
    /\ \A c \in nlog, d \in nlog :
           (c.op = d.op /\ c.seed = d.seed /\ c.x = d.x /\ c.y = d.y) => c.out = d.out
C17_Step == ncalls' # ncalls => gens' = gens

Integrated(p, inp) ==
    LET m == handleMovement(p, inp.move, inp.jump)
        vy == IF m.onGround THEN m.vy ELSE m.vy + gravity * inp.dt
    IN  [vx |-> m.vx, vy |-> vy, vz |-> m.vz,
         x |-> m.x + m.vx * inp.dt, y |-> m.y + vy * inp.dt, z |-> m.z + m.vz * inp.dt]

\* The integer columns a body centred at a overlaps on one axis
Footprint(a) == Voxel(a - radius)..Voxel(a + radius)

\* Some voxel of layer y under the footprint at (x, z) is solid
SolidBelow(chunks, x, y, z) ==
    \E cx \in Footprint(x), cz \in Footprint(z) :
        World_isBlockSolid(chunks, cx, Voxel(y), cz)

C18_Step ==
    steps' = steps + 1 =>
        LET n == Integrated(player, input')
        IN  n.vy <= 0 =>
                IF SolidBelow(pworld, n.x, n.y, n.z)
                THEN /\ player'.y = (Voxel(n.y) + 1) * Unit
                     /\ player'.vy = 0
                     /\ player'.onGround
                ELSE /\ player'.y = n.y
                     /\ ~player'.onGround

\* C18: vertical resolution when not ascending (vy <= 0): if any voxel at layer
\* floor(nextY) in the integer columns floor(x - radius)..floor(x + radius) by
\* floor(z - radius)..floor(z + radius) is solid, the step ends with
\* y = floor(nextY) + 1, vy = 0 and ground-contact true; if none is solid,
\* y = nextY and ground-contact is false.
C18_VerticalResolution == [][C18_Step]_vars

\* A falling body has passed a step without support and has then landed, off
\* the voxel grid, on the layer below it
C18_Witness ==
    /\ steps >= 2
    /\ player.onGround /\ player.vy = 0 /\ player.y = Unit
    /\ player.x % Unit # 0
    /\ input.move # <<0, 0>>

\* The leading-edge column of an axis: position a, velocity v
LeadingEdge(a, v) == IF v > 0 THEN Voxel(a + radius) ELSE Voxel(a - radius)

\* The vertical layers handleCollisions takes the body at height y to span
Layers(y) == Voxel(y)..Voxel(y + height - headMargin)

C19_Step ==
    steps' = steps + 1 =>
        LET n == Integrated(player, input')
            hitX == \E y \in Layers(player'.y), z \in Footprint(n.z) :
                        World_isBlockSolid(pworld, LeadingEdge(n.x, n.vx), y, z)
            hitZ == \E y \in Layers(player'.y), x \in Footprint(n.x) :
                        World_isBlockSolid(pworld, x, y, LeadingEdge(n.z, n.vz))
        IN  /\ IF n.vx # 0 /\ hitX
               THEN player'.x = player.x /\ player'.vx = 0
               ELSE player'.x = n.x /\ player'.vx = n.vx
            /\ IF n.vz # 0 /\ hitZ
               THEN player'.z = player.z /\ player'.vz = 0
               ELSE player'.z = n.z /\ player'.vz = n.vz

C20_TrunkAboveColumn ==
    (last.op = "update" /\ last.tree # NoTree /\ ~last.tree.stunted) =>
        /\ last.tree.treeHeight \in {4, 5, 6}
        /\ \A i \in 1..last.tree.treeHeight :
              LET y == ColumnHeight(last.tree.x, last.tree.z) + i
              IN  y < SimChunkHeight =>
                      World_getBlock(world.chunks, last.tree.x, y, last.tree.z) = WOOD

(***************************************************************************)
(* Specification SpecColumn: generateTerrain fills one column of a fresh   *)
(* chunk of the world's height, for every height generateHeight can return *)
(* and every biome.  The chunk is solo, the arguments are in terr.         *)
(***************************************************************************)
ColumnHeights == minHeight..maxHeight

ColumnInit ==
    /\ solo = NewChunk(0, 0, 1, chunkHeight, 0)
    /\ soloLast = "new"
    /\ soloCalls = 0
    /\ soloCall = NoAccess
    /\ terr \in {[op |-> "generateTerrain", a |-> h, b |-> 0, c |-> 0, biome |-> bm,
                  out |-> 0, done |-> FALSE] : h \in ColumnHeights, bm \in Biomes}
    /\ WorldIdle /\ CoordIdle /\ PlayerIdle /\ NoiseIdle /\ GameIdle

\* this.generateTerrain(worldX, worldZ, height, biome, chunk, x, z)
CallGenerateTerrain ==
    /\ ~terr.done /\ terr.op = "generateTerrain"
    /\ solo' = generateTerrain(solo, 0, 0, terr.a, terr.biome, seaLevel, chunkHeight)
    /\ soloLast' = "generateTerrain"
    /\ terr' = [terr EXCEPT !.done = TRUE]
    /\ UNCHANGED <<soloCalls, soloCall, worldVars, coordVars, playerVars, noiseVars, gameVars>>

ColumnNext == CallGenerateTerrain

SpecColumn == ColumnInit /\ [][ColumnNext]_vars

\* The block in slot y of the column
ColumnSlot(y) == Chunk_getBlock(solo, 0, y, 0)

\* C21: column fill: after generateTerrain for a column of height h, every slot
\* 0..h holds a non-air voxel and every slot above h is absent; for a Plains or
\* Forest column with h > seaLevel, slot h is Grass, slots h-3..h-1 are Dirt
\* and all lower slots are Stone; for a Desert column with h > seaLevel, slots
\* h-5..h are Sand and all lower slots Stone.
C21_ColumnFill ==
    (terr.done /\ terr.op = "generateTerrain") =>
        LET h == terr.a
        IN  /\ \A y \in 0..h : ColumnSlot(y) \notin {null, AIR}
            /\ \A y \in (h + 1)..(chunkHeight - 1) : ColumnSlot(y) = null
            /\ (terr.biome \in {PLAINS, FOREST} /\ h > seaLevel) =>
                   /\ ColumnSlot(h) = GRASS
                   /\ \A y \in (h - 3)..(h - 1) : ColumnSlot(y) = DIRT
                   /\ \A y \in 0..(h - 4) : ColumnSlot(y) = STONE
            /\ (terr.biome = DESERT /\ h > seaLevel) =>
                   /\ \A y \in (h - 5)..h : ColumnSlot(y) = SAND
                   /\ \A y \in 0..(h - 6) : ColumnSlot(y) = STONE

\* A Forest column above sea level has been filled
C21_Witness ==
    /\ terr.done /\ terr.op = "generateTerrain"
    /\ terr.biome = FOREST /\ terr.a > seaLevel
    /\ ColumnSlot(terr.a) = GRASS /\ ColumnSlot(0) = STONE

(***************************************************************************)
(* Meshes of the streamed world (specification Spec).                      *)
(***************************************************************************)
\* The chunk's mesh shows the quads buildMesh derives from its voxels now
Fresh(chunk) == MeshGeometry(chunk) = MeshQuads(chunk)

\* C22: mesh freshness: after every successful World.setBlock and after every
\* generateChunk, the affected chunk's mesh is the one buildMesh derives from
\* the chunk's current voxel contents, so between public operations no loaded
\* chunk carries a mesh that is stale relative to its voxels.
C22_MeshFresh == \A k \in DOMAIN world.chunks : Fresh(world.chunks[k])

\* A successful setBlock has placed a block in a generated chunk, whose mesh
\* is the newest one and shows that block
C22_Witness ==
    /\ last.op = "setBlock" /\ last.ret /\ last.type = STONE
    /\ LET k == ChunkKey(ChunkCoord(last.x, SimChunkSize), ChunkCoord(last.z, SimChunkSize))
       IN  /\ world.chunks[k].mesh # NoMesh
           /\ world.chunks[k].mesh.id = world.meshSeq
           /\ World_getBlock(world.chunks, last.x, last.y, last.z) = STONE
           /\ Len(MeshGeometry(world.chunks[k])) > 0

(***************************************************************************)
(* Specification SpecColour: a Chunk on its own receives blocks of         *)
(* materials with and without colour overrides and builds its mesh.        *)
(***************************************************************************)
PaintSites == {<<0, 0, 0>>, <<0, 1, 0>>}
PaintTypes == {GRASS, WOOD, STONE}

ColourNext ==
    \/ \E s \in PaintSites, t \in PaintTypes : SoloSetBlock(s[1], s[2], s[3], t)
    \/ SoloBuildMesh

SpecColour == ChunkInit /\ [][ColourNext]_vars

\* The material of the voxel that quad q of the chunk's mesh belongs to
QuadType(chunk, q) ==
    chunk.mesh.blocks[<<q.x - chunk.x * chunk.size, q.y, q.z - chunk.z * chunk.size>>]

Lateral == {"+X", "-X", "+Z", "-Z"}

\* C23: per-face colour: for a material that declares top, side or bottom
\* colour overrides, buildMesh colours the +Y face with the top override, the
\* -Y face with the bottom override and the four lateral faces with the side
\* override (the lateral faces of a Grass voxel get Grass's sideColor), and a
\* material with no overrides gets its single colour on all six faces.
C23_FaceColours ==
    LET quads == MeshGeometry(solo)
    IN  \A j \in 1..Len(quads) :
            LET q == quads[j]
                data == BlockData[QuadType(solo, q)]
            IN  /\ (q.dir = "+Y" /\ data.topColor # null) => q.color = data.topColor
                /\ (q.dir = "-Y" /\ data.bottomColor # null) => q.color = data.bottomColor
                /\ (q.dir \in Lateral /\ data.sideColor # null) => q.color = data.sideColor
                /\ (data.topColor = null /\ data.bottomColor = null
                    /\ data.sideColor = null) => q.color = data.color

(***************************************************************************)
(* Empty meshes (specification SpecChunk).                                 *)
(***************************************************************************)
\* The chunk holds no voxel of a solid material
NoSolidVoxel(chunk) ==
    \A s \in DOMAIN chunk.blocks :
        chunk.blocks[s] = null \/ ~Block_isBlockSolid(chunk.blocks[s])

\* The chunk holds no voxel other than Air
NoVoxel(chunk) == \A s \in DOMAIN chunk.blocks : chunk.blocks[s] \in {null, AIR}

\* buildMesh left the chunk without a mesh and without quads
NoGeometryResult(chunk) == chunk.mesh = NoMesh /\ MeshGeometry(chunk) = << >>

\* C24: buildMesh yields the explicit no-geometry result (mesh absent, no
\* quads) for every chunk that contains no solid voxel, including a chunk
\* whose only voxels are of a non-solid material such as Water.
C24_NoSolidNoGeometry ==
    (soloLast = "buildMesh" /\ NoSolidVoxel(solo)) => NoGeometryResult(solo)

\* C24 as amended: buildMesh yields the no-geometry result for every chunk
\* whose slots are all absent or Air.
C24_NoVoxelNoGeometry ==
    (soloLast = "buildMesh" /\ NoVoxel(solo)) => NoGeometryResult(solo)

\* After the last of its calls, a buildMesh, the chunk holds an Air block and
\* no other voxel, and has no mesh
C24_Witness ==
    /\ soloLast = "buildMesh" /\ soloCalls = MaxChunkCalls
    /\ NoVoxel(solo) /\ \E s \in DOMAIN solo.blocks : solo.blocks[s] = AIR
    /\ solo.mesh = NoMesh

(***************************************************************************)
(* The permutation table (specification SpecNoise).                        *)
(***************************************************************************)
\* The indexes into p that the shuffle uses, for each seed
ShuffleIndexes == [s \in Seeds |-> ShuffleRun(s).used]

\* The indexes into this.permutation that noise2D(x / NoiseGrid, y / NoiseGrid)
\* uses
NoiseIndexes(perm, x, y) ==
    LET X == FloorDiv(x, NoiseGrid) % permutationSize
        Y == FloorDiv(y, NoiseGrid) % permutationSize
        A == JsAdd(PermAt(perm, X), Y)
        B == JsAdd(PermAt(perm, X + 1), Y)
    IN  {X, A, JsAdd(A, 1), X + 1, B, JsAdd(B, 1),
         PermAt(perm, A), PermAt(perm, JsAdd(A, 1)),
         PermAt(perm, B), PermAt(perm, JsAdd(B, 1))}

\* C25: for every seed, generatePermutation returns a table of exactly 512
\* entries whose first 256 entries are a permutation of 0..255 (each value
\* exactly once) and whose entry i + 256 equals entry i for all 0 <= i < 256;
\* every index the shuffle and noise2D use into the table is within 0..511.
C25_PermutationTable ==
    \A g \in DOMAIN gens :
        LET t == gens[g].permutation
        IN  /\ DOMAIN t = 0..(2 * permutationSize - 1)
            /\ {t[i] : i \in 0..(permutationSize - 1)} = 0..(permutationSize - 1)
            /\ \A i \in 0..(permutationSize - 1) : t[i + permutationSize] = t[i]
            /\ ShuffleIndexes[gens[g].seed] \subseteq 0..(permutationSize - 1)
            /\ \A i \in LatticeProbe, c \in NoisePoints :
                   NoiseIndexes(t, i * NoiseGrid + c[1], c[2] - i * NoiseGrid)
                       \subseteq 0..(2 * permutationSize - 1)


(***************************************************************************)
(* Repeated update (specification Spec).                                   *)
(***************************************************************************)
\* World.update called again with the position of the call just before it
RepeatedUpdate ==
    /\ last.op = "update"
    /\ last'.op = "update"
    /\ updates' = updates + 1
    /\ last'.x = last.x
    /\ last'.z = last.z

C26_Step ==
    RepeatedUpdate =>
        /\ world'.chunks = world.chunks
        /\ world'.scene = world.scene
        /\ log'[Len(log')].generated = 0
        /\ log'[Len(log')].unloaded = 0

\* C26: World.update(p) called a second time with the same position p right
\* after the first generates no chunk, unloads no chunk and leaves the loaded
\* chunk coordinates and the chunk instances under them as they were.
C26_UpdateIdempotent == [][C26_Step]_vars

\* Reached: a second update at the position of the first with chunks loaded
\* on both sides of the call, chunks left over from an earlier position among them
C26_Witness ==
    /\ last.op = "update"
    /\ Len(log) >= 3
    /\ log[Len(log)].chunk = log[Len(log) - 1].chunk
    /\ log[Len(log)].generated = 0
    /\ log[Len(log) - 1].generated > 0
    /\ \E k \in DOMAIN world.chunks : k \notin Near(LastPlayerChunk)


(***************************************************************************)
(* Walls (specification SpecPlayer).                                       *)
(***************************************************************************)
\* A body standing on a solid voxel layer with no vertical velocity
Grounded(p, chunks) ==
    /\ p.vy = 0
    /\ p.onGround
    /\ p.y % Unit = 0
    /\ SolidBelow(chunks, p.x, p.y - Unit, p.z)

\* The step from p to the integrated position n brings the body's leading
\* edge on X into a column it did not overlap, solid there in front of the
\* body on every layer from its feet to its head
WallOnX(chunks, p, n) ==
    /\ n.vx # 0
    /\ LeadingEdge(n.x, n.vx) \notin Footprint(p.x)
    /\ \E z \in Footprint(p.z) : \A y \in Voxel(p.y)..Voxel(p.y + height) :
          World_isBlockSolid(chunks, LeadingEdge(n.x, n.vx), y, z)

C27_Step ==
    (/\ steps' = steps + 1
     /\ ~input'.jump
     /\ Grounded(player, pworld)
     /\ WallOnX(pworld, player, Integrated(player, input')))
        => LET n == Integrated(player, input')
               hitZ == \E y \in Layers(player.y), x \in Footprint(player.x) :
                           World_isBlockSolid(pworld, x, y, LeadingEdge(n.z, n.vz))
           IN  /\ player'.y = player.y
               /\ player'.x = player.x /\ player'.vx = 0
               /\ (n.vz # 0 /\ ~hitZ) => (player'.z = n.z /\ player'.vz = n.vz)

\* C27: no wall climbing: a body resting on the ground with zero vertical
\* velocity that moves horizontally into a solid wall at least as tall as the
\* body keeps its vertical position and is stopped only on the blocked
\* horizontal axis; a wall voxel the footprint overlaps only through this
\* step's horizontal displacement does not trigger the vertical snap.
C27_NoWallClimb == [][C27_Step]_vars


(***************************************************************************)
(* Penetration (specification SpecPlayer).                                 *)
(***************************************************************************)
\* The voxels along one axis whose interior the body's extent a - lo .. a + hi
\* reaches into
Reached(a, lo, hi) == Voxel(a - lo)..Voxel(a + hi - 1)

\* The body's box, radius around (x, z) and height above y, intersects no
\* solid voxel
BoxFree(p, chunks) ==
    \A x \in Reached(p.x, radius, radius), y \in Reached(p.y, 0, height),
       z \in Reached(p.z, radius, radius) : ~World_isBlockSolid(chunks, x, y, z)

\* The step's displacement on every axis is less than one voxel
ShortStep(p, n) ==
    /\ Abs(n.x - p.x) < Unit
    /\ Abs(n.y - p.y) < Unit
    /\ Abs(n.z - p.z) < Unit

C28_Step ==
    (/\ steps' = steps + 1
     /\ BoxFree(player, pworld)
     /\ ShortStep(player, Integrated(player, input')))
        => BoxFree(player', pworld')

\* C28: no penetration: if before a physics step the body's box intersects no
\* solid voxel and the step's displacement on each axis is less than one
\* voxel, the body's box intersects no solid voxel after the step.
C28_NoPenetration == [][C28_Step]_vars


(***************************************************************************)
(* The Game's pause state (specification SpecPause): the Escape key, the   *)
(* buttons of the pause and settings menus, the tab's visibility changes   *)
(* and the animation frames, in any order.  A button is clicked only while *)
(* its menu is displayed.  The pointer lock is left out.                   *)
(***************************************************************************)
\* Game.togglePause()
togglePause(g) ==
    LET open == ~g.isMenuOpen
    IN  [g EXCEPT !.isMenuOpen = open,
                  !.pauseMenu = IF open THEN "block" ELSE "none",
                  !.isPaused = open]

\* Game.respawnPlayer()
respawnPlayer(g) == togglePause([g EXCEPT !.atSpawn = TRUE])

\* Game.restartGame()
restartGame(g) == togglePause([g EXCEPT !.worldLoaded = FALSE, !.atSpawn = TRUE])

\* Game.showSettings(), Game.showPauseMenu()
showSettings(g) == [g EXCEPT !.pauseMenu = "none", !.settingsMenu = "block"]
showPauseMenu(g) == [g EXCEPT !.settingsMenu = "none", !.pauseMenu = "block"]

\* Game.pause(), Game.resume()
Game_pause(g) == [g EXCEPT !.isPaused = TRUE]
Game_resume(g) == [g EXCEPT !.isPaused = FALSE]

\* Game.update(deltaTime): the player moves, the world loads its chunks
Game_update(g) == [g EXCEPT !.atSpawn = FALSE, !.worldLoaded = TRUE]

PauseInit ==
    /\ game = NewGame
    /\ hidden = FALSE
    /\ frame = "none"
    /\ frames = 0
    /\ WorldIdle /\ CoordIdle /\ ChunkIdle /\ PlayerIdle /\ TerrainIdle /\ NoiseIdle

Others == <<worldVars, coordVars, chunkVars, playerVars, terrainVars, noiseVars>>

\* InputHandler.handleKeyDown, case 'escape'
KeyEscape ==
    /\ game' = togglePause(game)
    /\ UNCHANGED <<hidden, frame, frames, Others>>

\* click on resumeButton
ClickResume ==
    /\ game.pauseMenu = "block"
    /\ game' = togglePause(game)
    /\ UNCHANGED <<hidden, frame, frames, Others>>

\* click on respawnButton
ClickRespawn ==
    /\ game.pauseMenu = "block"
    /\ game' = respawnPlayer(game)
    /\ UNCHANGED <<hidden, frame, frames, Others>>

\* click on restartButton
ClickRestart ==
    /\ game.pauseMenu = "block"
    /\ game' = restartGame(game)
    /\ UNCHANGED <<hidden, frame, frames, Others>>

\* click on settingsButton
ClickSettings ==
    /\ game.pauseMenu = "block"
    /\ game' = showSettings(game)
    /\ UNCHANGED <<hidden, frame, frames, Others>>

\* click on backToMenuButton; applySettings ends in the same showPauseMenu()
ClickBack ==
    /\ game.settingsMenu = "block"
    /\ game' = showPauseMenu(game)
    /\ UNCHANGED <<hidden, frame, frames, Others>>

\* visibilitychange with document.hidden true
TabHidden ==
    /\ ~hidden
    /\ hidden' = TRUE
    /\ game' = Game_pause(game)
    /\ UNCHANGED <<frame, frames, Others>>

\* visibilitychange with document.hidden false
TabShown ==
    /\ hidden
    /\ hidden' = FALSE
    /\ game' = Game_resume(game)
    /\ UNCHANGED <<frame, frames, Others>>

\* Game.animate(), called back by requestAnimationFrame
Animate ==
    /\ frames < MaxFrames
    /\ game.isRunning
    /\ IF game.isPaused
       THEN frame' = "skipped" /\ game' = game
       ELSE frame' = "updated" /\ game' = Game_update(game)
    /\ frames' = frames + 1
    /\ UNCHANGED <<hidden, Others>>

PauseNext ==
    \/ KeyEscape
    \/ ClickResume
    \/ ClickRespawn
    \/ ClickRestart
    \/ ClickSettings
    \/ ClickBack
    \/ TabHidden
    \/ TabShown
    \/ Animate

SpecPause == PauseInit /\ [][PauseNext]_vars

\* C29: pause consistency: in every state reachable by any interleaving of
\* togglePause, respawnPlayer, restartGame and the tab-visibility handlers
\* pause() and resume(), whenever the pause menu is open (isMenuOpen) the game
\* is paused (isPaused), so that no game update runs while the menu is shown.
C29_MenuOpenPaused == game.isMenuOpen => game.isPaused


(***************************************************************************)
(* The dirty flag (specification SpecChunk).                               *)
(***************************************************************************)
\* C30: after Chunk.buildMesh returns, the chunk's dirty flag needsUpdate is
\* false for every chunk content, also when the chunk holds no voxel and the
\* resulting mesh is absent; the flag is true only between a voxel mutation
\* and the next buildMesh.
C30_BuiltIsClean == soloLast = "buildMesh" => ~solo.needsUpdate

====
